---- MODULE Spec2Model ----
(***************************************************************************)
(* A model of the actiserve relay: the HTTP-signature codec                *)
(* (src/src/signature.rs), the inbox registry and dedup cache              *)
(* (src/src/state.rs) and the inbox state machine                          *)
(* (src/src/routes/inbox.rs).                                              *)
(*                                                                         *)
(* Text.  A Rust string is modelled as a sequence of tokens.  The          *)
(* characters the parsing code tests for  , = " space -  are tokens of     *)
(* their own; every other token is a non-empty run of characters that      *)
(* holds none of them.  Two strings are equal iff their token sequences    *)
(* are.                                                                    *)
(*                                                                         *)
(* Crypto.  RSA PKCS#1 v1.5 is modelled symbolically: the signature of a   *)
(* message under a key is a term naming the key, the digest and the        *)
(* message, and it verifies only against that key, digest and message.     *)
(***************************************************************************)
EXTENDS Integers, Sequences, FiniteSets, TLC

VARIABLES
    sg,            \* the codec exercise: one sign / tamper / validate round
    inboxes,       \* Db.inboxes: map of host to inbox          (state.rs:70)
    object_cache,  \* State.object_cache: object id -> activity id (state.rs:18)
    uuids,         \* how many Uuid::new_v4() values have been drawn
    hs,            \* the inbox handler tasks: position, request, ghost history
    dbLog          \* the results of direct Db calls, in order

vars == <<sg, inboxes, object_cache, uuids, hs, dbLog>>

-----------------------------------------------------------------------------
(* Text helpers *)

Q == "\""
SP == " "
COMMA == ","
EQ == "="
DASH == "-"

RECURSIVE Flat(_)
\* all the characters of a text, as one string
Flat(t) == IF t = <<>> THEN "" ELSE Head(t) \o Flat(Tail(t))

RECURSIVE Join(_, _)
\* itertools join / slice join: the texts of ts separated by sep
Join(ts, sep) ==
    IF ts = <<>> THEN <<>>
    ELSE IF Len(ts) = 1 THEN ts[1]
    ELSE ts[1] \o sep \o Join(Tail(ts), sep)

\* position of the first token c in t, 0 when there is none
FirstIndex(t, c) ==
    IF \E i \in 1..Len(t) : t[i] = c
    THEN CHOOSE i \in 1..Len(t) : t[i] = c /\ \A j \in 1..(i - 1) : t[j] # c
    ELSE 0

\* position of the last token c in t, 0 when there is none
LastIndex(t, c) ==
    IF \E i \in 1..Len(t) : t[i] = c
    THEN CHOOSE i \in 1..Len(t) : t[i] = c /\ \A j \in (i + 1)..Len(t) : t[j] # c
    ELSE 0

RECURSIVE Split(_, _)
\* str::split(c): the pieces between every occurrence of c (one piece, the
\* text itself, when c does not occur; an empty text gives one empty piece)
Split(t, c) ==
    LET i == FirstIndex(t, c) IN
    IF i = 0 THEN <<t>>
    ELSE <<SubSeq(t, 1, i - 1)>> \o Split(SubSeq(t, i + 1, Len(t)), c)

\* str::rsplit_once(c): what a split at the last occurrence would give
RSplitOnce(t, c) ==
    LET i == LastIndex(t, c) IN
    IF i = 0 THEN [some |-> FALSE, k |-> <<>>, v |-> <<>>]
    ELSE [some |-> TRUE, k |-> SubSeq(t, 1, i - 1), v |-> SubSeq(t, i + 1, Len(t))]

\* str::split_once(c): the text before and after the first occurrence of c
SplitOnce(t, c) ==
    LET i == FirstIndex(t, c) IN
    IF i = 0 THEN [some |-> FALSE, k |-> <<>>, v |-> <<>>]
    ELSE [some |-> TRUE, k |-> SubSeq(t, 1, i - 1), v |-> SubSeq(t, i + 1, Len(t))]

\* v.strip_prefix('"').and_then(|v| v.strip_suffix('"'))
StripQuotes(v) ==
    IF Len(v) >= 2 /\ v[1] = Q /\ v[Len(v)] = Q
    THEN [some |-> TRUE, v |-> SubSeq(v, 2, Len(v) - 1)]
    ELSE [some |-> FALSE, v |-> <<>>]

-----------------------------------------------------------------------------
(* Errors (src/src/error.rs) *)

MissingSignature ==
    [kind |-> "MissingSignature", status |-> 0, message |-> "missing signature", uri |-> <<>>]

InvalidUri(u) ==
    [kind |-> "InvalidUri", status |-> 0, message |-> "is not a valid uri", uri |-> u]

StatusAndMessage(s, m) ==
    [kind |-> "StatusAndMessage", status |-> s, message |-> m, uri |-> <<>>]

FailedRequest(method, s, u) ==
    [kind |-> "FailedRequest", status |-> s, message |-> method, uri |-> u]

InvalidJson(u) ==
    [kind |-> "InvalidJson", status |-> 0, message |-> "invalid JSON", uri |-> u]

INVALID_SIG == StatusAndMessage(401, "invalid HTTP signature")

\* Error::into_response: the status, and the "error" and "uri" fields of
\* the JSON body
into_response(e) ==
    CASE e.kind = "FailedRequest" ->
            [status |-> e.status, error |-> "failed http request", uri |-> e.uri]
      [] e.kind = "InvalidJson" -> [status |-> 500, error |-> e.message, uri |-> e.uri]
      [] e.kind = "InvalidUri" -> [status |-> 401, error |-> e.message, uri |-> e.uri]
      [] e.kind = "MissingSignature" -> [status |-> 401, error |-> e.message, uri |-> <<>>]
      [] e.kind = "StatusAndMessage" ->
            [status |-> e.status, error |-> e.message, uri |-> <<>>]

NoError == [kind |-> "None", status |-> 0, message |-> "", uri |-> <<>>]
RetOk == [kind |-> "Ok", err |-> NoError]
RetErr(e) == [kind |-> "Err", err |-> e]
RetPanic == [kind |-> "Panic", err |-> NoError]

-----------------------------------------------------------------------------
(* URIs (http::Uri as the code uses it) *)

Paths == {"/inbox", "/actor", "/"}
NoHost == "<none>"

Https(host, path) == <<"https://", host, path>>

\* str::parse::<Uri>() with Uri::host and Uri::path: an absolute URI
\* scheme://host[/path], an authority alone ("example.com"), or a path
\* alone ("/inbox"); "example.com/foo/bar" does not parse (util.rs:77-88)
ParseUri(u) ==
    IF Len(u) = 3 /\ u[1] \in {"https://", "http://"}
    THEN [ok |-> TRUE, host |-> u[2], path |-> u[3]]
    ELSE IF Len(u) = 2 /\ u[1] \in {"https://", "http://"}
    THEN [ok |-> TRUE, host |-> u[2], path |-> "/"]
    ELSE IF Len(u) = 1 /\ u[1] \in Paths
    THEN [ok |-> TRUE, host |-> NoHost, path |-> u[1]]
    ELSE IF Len(u) = 1
    THEN [ok |-> TRUE, host |-> u[1], path |-> ""]
    ELSE [ok |-> FALSE, host |-> NoHost, path |-> ""]

\* util::host_from_uri
host_from_uri(u) ==
    LET p == ParseUri(u) IN
    IF ~p.ok \/ p.host = NoHost
    THEN [ok |-> FALSE, host |-> <<>>, err |-> InvalidUri(u)]
    ELSE [ok |-> TRUE, host |-> <<p.host>>, err |-> NoError]

-----------------------------------------------------------------------------
(* SignatureCodec (src/src/signature.rs) *)

HRequestTarget == <<"(request", DASH, "target)">>
HDate == <<"date">>
HHost == <<"host">>
HContentLength == <<"content", DASH, "length">>
HDigest == <<"digest">>
HSignature == <<"signature">>

KKeyId == <<"keyId">>
KAlgorithm == <<"algorithm">>
KHeaders == <<"headers">>
KSignature == <<"signature">>

\* the keypairs of the model; a public key is named as its private key
Keys == {"kA", "kB"}

\* lib.rs base_url(): the default, "127.0.0.1:4242"
base_url == "127.0.0.1:4242"

Bodies == {"{hello}", "{world}"}
NoData == [some |-> FALSE, s |-> ""]
SomeData(s) == [some |-> TRUE, s |-> s]

\* str::len().to_string(): both bodies of the model are seven bytes long
LenStr(s) == "7"

\* base64::encode of a byte string: the word, with the padding "=" that a
\* 32-byte digest and a 128-byte RSA signature both end in
Base64Encode(bytes) == <<bytes, EQ>>

\* words that are not in the base64 alphabet
NotBase64 == {"!!!", Q, SP, COMMA, DASH}

\* base64::decode: the padding, if any, ends the text
Base64Decode(t) ==
    IF /\ Len(t) \in {1, 2}
       /\ t[1] \notin NotBase64 \cup {EQ}
       /\ (Len(t) = 2 => t[2] = EQ)
    THEN [ok |-> TRUE, bytes |-> t[1]]
    ELSE [ok |-> FALSE, bytes |-> ""]

\* hmac_sha256::Hash::hash: a term of the body
Sha256(s) == "sha256(" \o s \o ")"

\* SigningKey<D>::sign_with_rng: a term of key, digest and message
SigBytes(key, digest, msg) == "rsa(" \o key \o "," \o digest \o "," \o Flat(msg) \o ")"

\* signature.rs build_signing_string:  k: "v"  lines joined by "\n"
build_signing_string(pairs) ==
    Join([i \in 1..Len(pairs) |->
             pairs[i][1] \o <<":", SP, Q>> \o pairs[i][2] \o <<Q>>], <<"\n">>)

\* signature.rs build_sig_header
build_sig_header(signature, names) ==
    Join(<< KKeyId \o <<EQ, Q, "https://" \o base_url \o "/actor#main", DASH, "key", Q>>,
            KAlgorithm \o <<EQ, Q, "rsa", DASH, "sha256", Q>>,
            KHeaders \o <<EQ, Q>> \o Join(names, <<SP>>) \o <<Q>>,
            KSignature \o <<EQ, Q>> \o signature \o <<Q>> >>, <<COMMA>>)

\* signature.rs create_signature
create_signature(pairs, sig_key) ==
    LET signed_bytes == SigBytes(sig_key, "sha256", build_signing_string(pairs))
        signature == Base64Encode(signed_bytes)
    IN build_sig_header(signature, [i \in 1..Len(pairs) |-> pairs[i][1]])

\* collect::<HashMap>() of a sequence of pairs: a later pair replaces an
\* earlier one of the same key
PairsToMap(pairs) ==
    [k \in {pairs[i][1] : i \in 1..Len(pairs)} |->
        LET last == CHOOSE i \in 1..Len(pairs) :
                       /\ pairs[i][1] = k
                       /\ \A j \in (i + 1)..Len(pairs) : pairs[j][1] # k
        IN pairs[last][2]]

\* HashMap::insert
MapInsert(m, k, v) == [x \in DOMAIN m \cup {k} |-> IF x = k THEN v ELSE m[x]]

\* HashMap::remove
MapRemove(m, k) == [x \in DOMAIN m \ {k} |-> m[x]]

EmptyMap == [x \in {} |-> <<>>]

\* a signer that transmits the (request-target) pseudo-header as well
sign_request_headers_keep_target(uri, data, sig_key, date) ==
    LET p == ParseUri(uri)
        method == IF data.some THEN "post" ELSE "get"
        target == <<method, SP, p.path>>
        base == << <<HRequestTarget, target>>, <<HDate, date>>, <<HHost, <<p.host>> >> >>
        pairs == IF data.some
                 THEN base \o << <<HContentLength, <<LenStr(data.s)>> >>,
                                 <<HDigest, <<"SHA", DASH, "256", EQ>>
                                            \o Base64Encode(Sha256(data.s))>> >>
                 ELSE base
        signature == create_signature(pairs, sig_key)
    IN IF ~p.ok \/ p.host = NoHost
       THEN [ok |-> FALSE, headers |-> EmptyMap, err |-> InvalidUri(uri)]
       ELSE [ok |-> TRUE, err |-> NoError,
             headers |-> MapInsert(PairsToMap(pairs), HSignature, signature)]

\* signature.rs sign_request_headers; `date` is what now() returned
sign_request_headers(uri, data, sig_key, date) ==
    LET p == ParseUri(uri)
        method == IF data.some THEN "post" ELSE "get"
        target == <<method, SP, p.path>>
        base == << <<HRequestTarget, target>>, <<HDate, date>>, <<HHost, <<p.host>> >> >>
        pairs == IF data.some
                 THEN base \o << <<HContentLength, <<LenStr(data.s)>> >>,
                                 <<HDigest, <<"SHA", DASH, "256", EQ>>
                                            \o Base64Encode(Sha256(data.s))>> >>
                 ELSE base
        signature == create_signature(pairs, sig_key)
    IN IF ~p.ok \/ p.host = NoHost
       THEN [ok |-> FALSE, headers |-> EmptyMap, err |-> InvalidUri(uri)]
       ELSE [ok |-> TRUE, err |-> NoError,
             headers |-> MapRemove(MapInsert(PairsToMap(pairs), HSignature, signature),
                                   HRequestTarget)]

\* signature.rs split_signature
split_signature(s) ==
    LET pieces == Split(s, COMMA)
        kv(i) == SplitOnce(pieces[i], EQ)
        val(i) == StripQuotes(kv(i).v)
    IN IF \A i \in 1..Len(pieces) : kv(i).some /\ val(i).some
       THEN [ok |-> TRUE, map |-> PairsToMap([i \in 1..Len(pieces) |-> <<kv(i).k, val(i).v>>])]
       ELSE [ok |-> FALSE, map |-> EmptyMap]

\* signature.rs verify::<D>
verify(digest, pub_key, data, signature) ==
    IF signature = SigBytes(pub_key, digest, data) THEN RetOk ELSE RetErr(INVALID_SIG)

\* signature.rs validate_signature; actor.key() is the actor's public key
validate_signature(actor, method, path, headers) ==
    IF HSignature \notin DOMAIN headers THEN RetErr(MissingSignature)
    ELSE
    LET parsed == split_signature(headers[HSignature])
        target == <<method, SP, path>>
        sig == MapInsert(parsed.map, HRequestTarget, target)
        hmap == MapInsert(headers, HRequestTarget, target)
        sig_data == Base64Decode(sig[KSignature])
        names == Split(sig[KHeaders], SP)
        ordered_headers == [i \in 1..Len(names) |-> <<names[i], hmap[names[i]]>>]
        signing_string == build_signing_string(ordered_headers)
        alg == SplitOnce(sig[KAlgorithm], DASH)
    IN IF ~parsed.ok THEN RetErr(INVALID_SIG)
       ELSE IF KSignature \notin DOMAIN sig THEN RetErr(INVALID_SIG)
       ELSE IF ~sig_data.ok THEN RetErr(INVALID_SIG)
       ELSE IF KHeaders \notin DOMAIN sig THEN RetErr(INVALID_SIG)
       ELSE IF \E i \in 1..Len(names) : names[i] \notin DOMAIN hmap THEN RetPanic
       ELSE IF KAlgorithm \notin DOMAIN sig THEN RetErr(INVALID_SIG)
       ELSE IF ~alg.some THEN RetErr(INVALID_SIG)
       ELSE IF alg.v = <<"sha256">>
            THEN verify("sha256", actor.key, signing_string, sig_data.bytes)
       ELSE IF alg.v = <<"sha512">>
            THEN verify("sha512", actor.key, signing_string, sig_data.bytes)
       ELSE RetErr(INVALID_SIG)

-----------------------------------------------------------------------------
(* The codec exercise: sign a request, perhaps change one part of it in     *)
(* transit, validate it.                                                    *)

SignUris ==
    { Https("a.example", "/inbox"),
      <<"https://", "b.example">>,
      <<"http://", "a.example", "/actor">>,
      <<"a.example", "/inbox">>,
      <<"/inbox">> }

\* what now() may return: "%a, %d %b %Y %H:%M:%S UTC"
Dates == { <<"Wed", COMMA, SP, "04", SP, "Nov", SP, "2026", SP, "10:00:00", SP, "UTC">>,
           <<"Thu", COMMA, SP, "05", SP, "Nov", SP, "2026", SP, "10:00:00", SP, "UTC">> }

Methods == {"post", "get"}

NoRet == [kind |-> "None", err |-> NoError]

SgOff ==
    [stage |-> "off", uri |-> <<>>, data |-> NoData, key |-> "", date |-> <<>>,
     method |-> "", path |-> "", headers |-> EmptyMap, body |-> NoData,
     tamper |-> "none", vkey |-> "", vmethod |-> "", res |-> NoRet, signer |-> ""]

SgInput(u, d, k, dt) ==
    [SgOff EXCEPT !.stage = "input", !.uri = u, !.data = d, !.key = k, !.date = dt]

\* the signer: sign_request_headers, and the request as it goes on the wire
SgSign ==
    /\ sg.stage = "input"
    /\ LET r == sign_request_headers(sg.uri, sg.data, sg.key, sg.date) IN
       IF r.ok
       THEN sg' = [sg EXCEPT !.stage = "signed", !.signer = "relay",
                             !.method = IF sg.data.some THEN "post" ELSE "get",
                             !.path = ParseUri(sg.uri).path,
                             !.headers = r.headers,
                             !.body = sg.data]
       ELSE sg' = [sg EXCEPT !.stage = "unsigned"]
    /\ UNCHANGED <<inboxes, object_cache, uuids, hs, dbLog>>

DigestOf(s) == <<"SHA", DASH, "256", EQ>> \o Base64Encode(Sha256(s))

\* a remote signer of its own making: it signs date and host, and the
\* digest when there is a body, and lists just these in the headers field
SgSignRemote ==
    /\ sg.stage = "input"
    /\ host_from_uri(sg.uri).ok
    /\ LET p == ParseUri(sg.uri)
           base == << <<HDate, sg.date>>, <<HHost, <<p.host>> >> >>
           pairs == IF sg.data.some THEN base \o << <<HDigest, DigestOf(sg.data.s)>> >>
                    ELSE base
       IN sg' = [sg EXCEPT !.stage = "signed", !.signer = "remote",
                           !.method = IF sg.data.some THEN "post" ELSE "get",
                           !.path = p.path,
                           !.headers = MapInsert(PairsToMap(pairs), HSignature,
                                                 create_signature(pairs, sg.key)),
                           !.body = sg.data]
    /\ UNCHANGED <<inboxes, object_cache, uuids, hs, dbLog>>

\* one part of the signed request is changed, everything else kept
SgTamper ==
    /\ sg.stage = "signed"
    /\ \/ \E dt \in Dates \ {sg.headers[HDate]} :
             sg' = [sg EXCEPT !.stage = "tampered", !.tamper = "date",
                              !.headers = MapInsert(sg.headers, HDate, dt)]
       \/ \E b \in Bodies :
             /\ sg.body.some /\ b # sg.body.s
             /\ sg' = [sg EXCEPT !.stage = "tampered", !.tamper = "digest",
                                 !.headers = MapInsert(sg.headers, HDigest, DigestOf(b))]
       \/ \E b \in Bodies :
             /\ sg.body.some /\ b # sg.body.s
             /\ sg' = [sg EXCEPT !.stage = "tampered", !.tamper = "body",
                                 !.body = SomeData(b)]
       \/ \E p \in Paths \ {sg.path} :
             sg' = [sg EXCEPT !.stage = "tampered", !.tamper = "path", !.path = p]
    /\ UNCHANGED <<inboxes, object_cache, uuids, hs, dbLog>>

\* the verifier: validate_signature under some public key, for some method
SgValidate ==
    /\ sg.stage \in {"signed", "tampered"}
    /\ \E vk \in Keys, m \in Methods :
          sg' = [sg EXCEPT !.stage = "checked", !.vkey = vk, !.vmethod = m,
                           !.res = validate_signature([key |-> vk], m, sg.path, sg.headers)]
    /\ UNCHANGED <<inboxes, object_cache, uuids, hs, dbLog>>

-----------------------------------------------------------------------------
(* InboxRegistry and DedupCache (src/src/state.rs) *)

NotFoundInbox == StatusAndMessage(404, "unknown inbox")

\* a bug that would test the wrong thing the other way round: known to all
add_inbox_if_unknown_never(db, inbox) ==
    LET hst == host_from_uri(inbox) IN
    IF ~hst.ok THEN [ok |-> FALSE, err |-> hst.err, added |-> FALSE, db |-> db]
    ELSE [ok |-> TRUE, err |-> NoError, added |-> FALSE, db |-> db]

\* an add_inbox_if_unknown that files the entry under the inbox URL it tests
add_inbox_if_unknown_by_url(db, inbox) ==
    LET hst == host_from_uri(inbox) IN
    IF ~hst.ok THEN [ok |-> FALSE, err |-> hst.err, added |-> FALSE, db |-> db]
    ELSE IF inbox \in DOMAIN db
    THEN [ok |-> TRUE, err |-> NoError, added |-> FALSE, db |-> db]
    ELSE [ok |-> TRUE, err |-> NoError, added |-> TRUE, db |-> MapInsert(db, inbox, inbox)]

\* Db::add_inbox_if_unknown: the entry is keyed by the host, the test for
\* "known" looks the whole inbox URL up among the keys (state.rs:101)
add_inbox_if_unknown(db, inbox) ==
    LET hst == host_from_uri(inbox) IN
    IF ~hst.ok THEN [ok |-> FALSE, err |-> hst.err, added |-> FALSE, db |-> db]
    ELSE IF inbox \in DOMAIN db
    THEN [ok |-> TRUE, err |-> NoError, added |-> FALSE, db |-> db]
    ELSE [ok |-> TRUE, err |-> NoError, added |-> TRUE,
          db |-> MapInsert(db, hst.host, inbox)]

\* a remove_inbox that looks the entry up and leaves it where it is
remove_inbox_get(db, inbox) ==
    LET hst == host_from_uri(inbox) IN
    IF ~hst.ok THEN [ok |-> FALSE, err |-> hst.err, db |-> db]
    ELSE IF hst.host \in DOMAIN db
    THEN [ok |-> TRUE, err |-> NoError, db |-> db]
    ELSE [ok |-> FALSE, err |-> NotFoundInbox, db |-> db]

\* Db::remove_inbox
remove_inbox(db, inbox) ==
    LET hst == host_from_uri(inbox) IN
    IF ~hst.ok THEN [ok |-> FALSE, err |-> hst.err, db |-> db]
    ELSE IF hst.host \in DOMAIN db
    THEN [ok |-> TRUE, err |-> NoError, db |-> MapRemove(db, hst.host)]
    ELSE [ok |-> FALSE, err |-> NotFoundInbox, db |-> db]

\* a lookup under the URL of the domain instead of its host
db_inbox_by_url(db, domain) ==
    IF <<"https://">> \o domain \in DOMAIN db
    THEN [some |-> TRUE, inbox |-> db[<<"https://">> \o domain]]
    ELSE [some |-> FALSE, inbox |-> <<>>]

\* Db::inbox
db_inbox(db, domain) ==
    LET hst == host_from_uri(domain) IN
    IF hst.ok /\ hst.host \in DOMAIN db
    THEN [some |-> TRUE, inbox |-> db[hst.host]]
    ELSE [some |-> FALSE, inbox |-> <<>>]

\* an inboxes_for_actor whose filter keeps an inbox that passes either test
inboxes_for_actor_either(db, actor, object_id) ==
    LET origin == host_from_uri(object_id) IN
    IF ~origin.ok THEN [ok |-> FALSE, err |-> origin.err, inboxes |-> {}]
    ELSE [ok |-> TRUE, err |-> NoError,
          inboxes |-> {db[k] : k \in {x \in DOMAIN db :
                                         db[x] # actor.inbox \/ x # origin.host}}]

\* Db::inboxes_for_actor: the recipients, as a set (the order of a HashMap's
\* iteration is not fixed)
inboxes_for_actor(db, actor, object_id) ==
    LET origin == host_from_uri(object_id) IN
    IF ~origin.ok THEN [ok |-> FALSE, err |-> origin.err, inboxes |-> {}]
    ELSE [ok |-> TRUE, err |-> NoError,
          inboxes |-> {db[k] : k \in {x \in DOMAIN db :
                                         db[x] # actor.inbox /\ x # origin.host}}]

\* a lookup that searches the cached activity ids instead of the object ids
get_from_cache_by_value(cache, id) ==
    IF \E k \in DOMAIN cache : cache[k] = id THEN [some |-> TRUE, v |-> id]
    ELSE [some |-> FALSE, v |-> <<>>]

\* State::get_from_cache
get_from_cache(cache, id) ==
    IF id \in DOMAIN cache THEN [some |-> TRUE, v |-> cache[id]]
    ELSE [some |-> FALSE, v |-> <<>>]

\* a cache of one entry: the new entry replaces all that was there
cache_object_only(cache, object_id, activity_id) == MapInsert(EmptyMap, object_id, activity_id)

\* State::cache_object
cache_object(cache, object_id, activity_id) == MapInsert(cache, object_id, activity_id)

-----------------------------------------------------------------------------
(* Direct calls of the registry, one after the other *)

MaxCalls == 3

DbUrls ==
    { Https("a.example", "/inbox"), Https("a.example", "/users/1/inbox"),
      Https("b.example", "/inbox"), <<"a.example">>, <<"a.example", "/inbox">> }

DbAdd ==
    /\ Len(dbLog) < MaxCalls
    /\ \E u \in DbUrls :
          LET r == add_inbox_if_unknown(inboxes, u)
              hst == host_from_uri(u)
          IN /\ inboxes' = r.db
             /\ dbLog' = Append(dbLog,
                   [op |-> "add", arg |-> u, ok |-> r.ok, added |-> r.added,
                    host |-> hst.host, known |-> hst.ok /\ hst.host \in DOMAIN inboxes])
    /\ UNCHANGED <<sg, object_cache, uuids, hs>>

DbRemove ==
    /\ Len(dbLog) < MaxCalls
    /\ \E u \in DbUrls :
          LET r == remove_inbox(inboxes, u)
              hst == host_from_uri(u)
          IN /\ inboxes' = r.db
             /\ dbLog' = Append(dbLog,
                   [op |-> "remove", arg |-> u, ok |-> r.ok, added |-> FALSE,
                    host |-> hst.host, known |-> hst.ok /\ hst.host \in DOMAIN inboxes])
    /\ UNCHANGED <<sg, object_cache, uuids, hs>>

-----------------------------------------------------------------------------
(* OutboundClient (src/src/client.rs) and the remote servers *)

ActorA == [id |-> Https("a.example", "/actor"), inbox |-> Https("a.example", "/inbox"),
           key |-> "kA"]
ActorB == [id |-> Https("b.example", "/actor"), inbox |-> Https("b.example", "/inbox"),
           key |-> "kB"]
ActorC == [id |-> Https("c.example", "/actor"), inbox |-> Https("c.example", "/inbox"),
           key |-> "kC"]
NoActor == [id |-> <<>>, inbox |-> <<>>, key |-> ""]

\* an id without a scheme, as "example.com/without/scheme": not a URI
HostlessId == <<"d.example", "/actor">>

\* an actor whose document, served at https://d.example/actor, gives an id
\* that is no URI
ActorD == [id |-> HostlessId, inbox |-> Https("d.example", "/inbox"), key |-> "kD"]

\* the actors whose inboxes an earlier run may have registered
Subscribers == {ActorA, ActorB, ActorC}

\* an actor whose inbox is on another host than its id
ActorE == [id |-> Https("e.example", "/actor"), inbox |-> Https("inbox.e.example", "/e"),
           key |-> "kE"]

\* the actor documents the remote servers serve
RemoteActors == Subscribers \cup {ActorD, ActorE}

\* the URI an actor's document is fetched at
ServedAt(a) == IF a = ActorD THEN Https("d.example", "/actor") ELSE a.id

\* the actors that post to the relay's inbox
Senders == {ActorA, ActorB}

\* statedb.json as Db::new finds it: no file yet (it writes {}), or the
\* entries an earlier run of the relay left there
Persisted ==
    [k \in {host_from_uri(a.inbox).host : a \in Subscribers} |->
        (CHOOSE a \in Subscribers : host_from_uri(a.inbox).host = k).inbox]
StartRegistries == {EmptyMap, Persisted}
ActorAt(uri) == CHOOSE a \in RemoteActors : ServedAt(a) = uri

\* how an outbound HTTP call may end: a response of status 200, a response
\* of status 404, or no response at all
GetOutcomes == {"ok", "status404", "transport"}
PostOutcomes == {"ok", "transport"}

\* client.rs json_get + get_actor: signed_request_headers rejects a URI
\* without a host before anything is sent; send() fails only without a
\* response, and then carries no status; a 404 response is read as JSON like
\* any other
get_actor(uri, outcome) ==
    CASE ~host_from_uri(uri).ok ->
            [ok |-> FALSE, actor |-> NoActor, err |-> host_from_uri(uri).err]
      [] outcome = "ok" -> [ok |-> TRUE, actor |-> ActorAt(uri), err |-> NoError]
      [] outcome = "status404" -> [ok |-> FALSE, actor |-> NoActor, err |-> InvalidJson(uri)]
      [] outcome = "transport" ->
            [ok |-> FALSE, actor |-> NoActor, err |-> FailedRequest("GET", 500, uri)]

\* client.rs json_post: Ok for every response, whatever its status
json_post(uri, outcome) ==
    IF outcome = "ok" THEN RetOk ELSE RetErr(FailedRequest("POST", 500, uri))

-----------------------------------------------------------------------------
(* Inbound requests *)

Types == {"Follow", "Undo", "Announce", "Create", "Delete", "Update", "Accept"}

RelayHost == "relay.example"
RelayInbox == Https(RelayHost, "/inbox")

Note1 == Https("a.example", "/notes/1")
Note2 == Https("b.example", "/notes/2")
NotAUri == <<"notes", "/2">>

\* the nested "object" of an activity: a string, an object, or absent
StrObject(s) == [kind |-> "id", ty |-> "", hasId |-> FALSE, id |-> s]
Object(ty, id) == [kind |-> "obj", ty |-> ty, hasId |-> TRUE, id |-> id]
NoObject == [kind |-> "none", ty |-> "", hasId |-> FALSE, id |-> <<>>]
ObjectNoId(ty) == [kind |-> "obj", ty |-> ty, hasId |-> FALSE, id |-> <<>>]

ActivityOf(actor, obj) ==
    [id |-> <<"https://", ParseUri(ServedAt(actor)).host, "/activities/1">>, object |-> obj]

ObjectsFor(ty) ==
    CASE ty = "Follow" -> {StrObject(Https(RelayHost, "/actor")), NoObject}
      [] ty \in {"Announce", "Create", "Delete", "Update"} ->
            {StrObject(Note1), Object("Note", Note2), StrObject(NotAUri), NoObject,
             ObjectNoId("Note")}
      [] ty = "Undo" ->
            {Object("Follow", Https(RelayHost, "/actor")), Object("Announce", Note1),
             Object("Like", Note1), StrObject(Note1)}
      [] OTHER -> {StrObject(Note1)}

FirstObject(ty) ==
    CASE ty = "Follow" -> StrObject(Https(RelayHost, "/actor"))
      [] ty = "Undo" -> Object("Follow", Https(RelayHost, "/actor"))
      [] OTHER -> StrObject(Note1)

InboundDate == <<"Thu", COMMA, SP, "05", SP, "Nov", SP, "2026", SP, "10:00:00", SP, "UTC">>
InboundBody == "{hello}"

\* how the Signature of an inbound request may be wrong: no header at all, a
\* signature of another key, a listed header missing from the request, a
\* header that is no list of k="v" pairs, a field missing, a signature that
\* is not base64, an algorithm without "-" or with an unknown digest; and
\* how it may be unusual though well formed: a keyId with a comma in it
SigVariants ==
    {"valid", "nosig", "wrongkey", "nodate", "garbled", "nosigfield", "noheaders",
     "noalg", "badbase64", "nodash", "unknownalg", "commakey"}

\* the keyId of a sender whose key URL has a comma in its query
CommaKeyId == <<"https://a.example/actor?keys=1", COMMA, "2#main", DASH, "key">>

\* a Signature header of the given fields, written as build_sig_header writes
SigHeaderOf(m, ks) ==
    Join([n \in 1..Len(ks) |-> ks[n] \o <<EQ, Q>> \o m[ks[n]] \o <<Q>>], <<COMMA>>)

FieldOrder == <<KKeyId, KAlgorithm, KHeaders, KSignature>>

Without(ks, k) == SelectSeq(ks, LAMBDA x : x # k)

\* the headers of an inbound request: signed by the sender as
\* sign_request_headers signs, then perhaps damaged
InboundHeaders(variant, key) ==
    LET good == sign_request_headers(RelayInbox, SomeData(InboundBody), key, InboundDate).headers
        other == CHOOSE k \in Keys : k # key
        fields == split_signature(good[HSignature]).map
        resign(m, ks) == MapInsert(good, HSignature, SigHeaderOf(m, ks))
    IN CASE variant = "valid" -> good
         [] variant = "nosig" -> MapRemove(good, HSignature)
         [] variant = "nodate" -> MapRemove(good, HDate)
         [] variant = "wrongkey" ->
               sign_request_headers(RelayInbox, SomeData(InboundBody), other, InboundDate).headers
         [] variant = "garbled" -> MapInsert(good, HSignature, <<"garbage">>)
         [] variant = "nosigfield" -> resign(fields, Without(FieldOrder, KSignature))
         [] variant = "noheaders" -> resign(fields, Without(FieldOrder, KHeaders))
         [] variant = "noalg" -> resign(fields, Without(FieldOrder, KAlgorithm))
         [] variant = "badbase64" ->
               resign(MapInsert(fields, KSignature, <<"!!!">>), FieldOrder)
         [] variant = "nodash" ->
               resign(MapInsert(fields, KAlgorithm, <<"hs2019">>), FieldOrder)
         [] variant = "unknownalg" ->
               resign(MapInsert(fields, KAlgorithm, <<"rsa", DASH, "md5">>), FieldOrder)
         [] variant = "commakey" ->
               resign(MapInsert(fields, KKeyId, CommaKeyId), FieldOrder)

Request(ty, actor, obj, variant) ==
    [ty |-> ty, actor |-> ServedAt(actor), activity |-> ActivityOf(actor, obj),
     headers |-> InboundHeaders(variant, actor.key), path |-> "/inbox", sig |-> variant]

Requests ==
    UNION { { Request(ty, a, o, "valid") : a \in Senders, o \in ObjectsFor(ty) } :
               ty \in Types }
    \cup
    { Request(ty, a, FirstObject(ty), v) :
         ty \in Types, a \in Senders, v \in SigVariants \ {"valid"} }
    \cup
    { Request(ty, a, FirstObject(ty), "valid") : ty \in Types, a \in {ActorD, ActorE} }
    \cup
    { [Request(ty, ActorA, FirstObject(ty), "valid") EXCEPT !.actor = HostlessId] :
         ty \in Types }

NoRequest ==
    [ty |-> "", actor |-> <<>>, activity |-> [id |-> <<>>, object |-> NoObject],
     headers |-> EmptyMap, path |-> "", sig |-> ""]

\* util::id_from_json; not ok is the unwrap() of None
id_from_json(val) ==
    IF val.object.kind = "obj" /\ val.object.hasId THEN [ok |-> TRUE, id |-> val.object.id]
    ELSE IF val.object.kind = "id" THEN [ok |-> TRUE, id |-> val.object.id]
    ELSE [ok |-> FALSE, id |-> <<>>]

\* activity["object"]["type"].as_str()
object_type(val) ==
    IF val.object.kind = "obj" /\ val.object.ty # ""
    THEN [some |-> TRUE, ty |-> val.object.ty]
    ELSE [some |-> FALSE, ty |-> ""]

-----------------------------------------------------------------------------
(* RelayEngine: the inbox handler (src/src/routes/inbox.rs) *)

MaxUuids == 4

AccessDenied == StatusAndMessage(401, "access denied")

\* a check that lets everybody in
validate_request_open(actor, ty, db) ==
    LET actor_domain == host_from_uri(actor.id) IN
    IF ~actor_domain.ok THEN RetErr(actor_domain.err) ELSE RetOk

\* a check that asks for a registry entry neither from a Follow nor from an Undo
validate_request_undo_exempt(actor, ty, db) ==
    LET actor_domain == host_from_uri(actor.id) IN
    IF ~actor_domain.ok THEN RetErr(actor_domain.err)
    ELSE IF ty \notin {"Follow", "Undo"} /\ ~db_inbox(db, actor_domain.host).some
    THEN RetErr(AccessDenied)
    ELSE RetOk

\* a check that takes an actor whose id gives no domain for an unknown one
validate_request_hostless_unknown(actor, ty, db) ==
    LET actor_domain == host_from_uri(actor.id) IN
    IF ~actor_domain.ok
    THEN (IF ty # "Follow" THEN RetErr(AccessDenied) ELSE RetOk)
    ELSE IF ty # "Follow" /\ ~db_inbox(db, actor_domain.host).some THEN RetErr(AccessDenied)
    ELSE RetOk

\* routes/inbox.rs validate_request
validate_request(actor, ty, db) ==
    LET actor_domain == host_from_uri(actor.id) IN
    IF ~actor_domain.ok THEN RetErr(actor_domain.err)
    ELSE IF ty # "Follow" /\ ~db_inbox(db, actor_domain.host).some THEN RetErr(AccessDenied)
    ELSE RetOk

NoResponse == [kind |-> "none", status |-> 0, error |-> "", uri |-> <<>>]

\* what the client gets: extractors::Activity(json!({})) with status 200, the
\* error's response, or nothing when the handler panicked
Response(ret) ==
    CASE ret.kind = "Ok" -> [kind |-> "ok", status |-> 200, error |-> "", uri |-> <<>>]
      [] ret.kind = "Err" ->
            [kind |-> "err", status |-> into_response(ret.err).status,
             error |-> into_response(ret.err).error, uri |-> into_response(ret.err).uri]
      [] ret.kind = "Panic" -> [kind |-> "panic", status |-> 0, error |-> "", uri |-> <<>>]

NoMessage == [ty |-> "", id |-> <<>>, object |-> <<>>, to |-> <<>>]

\* axum runs every request on a task of its own; the tasks the model follows
First == "t1"
Second == "t2"
Handlers == {First, Second}

HIdle ==
    [pc |-> "idle", req |-> NoRequest, actor |-> NoActor, resp |-> NoResponse,
     object_id |-> <<>>, cache_value |-> <<>>, message |-> NoMessage,
     pending |-> {}, dropped |-> {}, res |-> RetOk, inbox |-> <<>>,
     \* the lock and await steps still to run, and the guards held
     ops |-> <<>>, holds |-> {},
     \* history of this request
     fetch |-> "", verified |-> FALSE, authorized |-> FALSE, known |-> FALSE,
     knownAtAdd |-> FALSE, added |-> FALSE,
     regWrites |-> 0, cacheWrites |-> 0, posts |-> <<>>,
     pre |-> [inboxes |-> EmptyMap, cache |-> EmptyMap]]

Finish(hh, ret) == [hh EXCEPT !.pc = "done", !.resp = Response(ret)]

Post(to, msg, ok) == [to |-> to, ty |-> msg.ty, id |-> msg.id, object |-> msg.object, ok |-> ok]

MintActivityId(host, n) == <<"https://", host, "/activities/uuid" \o ToString(n)>>

\* a request arrives; axum has extracted headers, host, uri and JSON body
Receive(i) ==
    /\ hs[i].pc = "idle"
    /\ uuids < MaxUuids
    /\ \E r \in Requests :
          hs' = [hs EXCEPT ![i] =
                [HIdle EXCEPT !.pc = "get_actor", !.req = r,
                               !.pre = [inboxes |-> inboxes, cache |-> object_cache]]]
    /\ UNCHANGED <<sg, inboxes, object_cache, uuids, dbLog>>

\* post, line 38: state.client.get_actor(&req.actor).await?
GetActor(i) ==
    /\ hs[i].pc = "get_actor"
    /\ \E o \in GetOutcomes :
          LET r == get_actor(hs[i].req.actor, o) IN
          hs' = [hs EXCEPT ![i] =
                   IF r.ok THEN [hs[i] EXCEPT !.pc = "validate_signature", !.actor = r.actor,
                                              !.fetch = o]
                   ELSE Finish([hs[i] EXCEPT !.fetch = o], RetErr(r.err))]
    /\ UNCHANGED <<sg, inboxes, object_cache, uuids, dbLog>>

\* a handler that lets a request without Signature header through
ValidateSignatureUnlessMissing(i) ==
    /\ hs[i].pc = "validate_signature"
    /\ LET r == validate_signature(hs[i].actor, "post", hs[i].req.path, hs[i].req.headers) IN
       hs' = [hs EXCEPT ![i] =
             IF r.kind = "Ok" THEN [hs[i] EXCEPT !.pc = "validate_request", !.verified = TRUE]
              ELSE IF r = RetErr(MissingSignature) THEN [hs[i] EXCEPT !.pc = "validate_request"]
              ELSE Finish(hs[i], r)]
    /\ UNCHANGED <<sg, inboxes, object_cache, uuids, dbLog>>

\* post, line 40: validate_signature(&actor, "post", uri.path(), &headers)?
ValidateSignature(i) ==
    /\ hs[i].pc = "validate_signature"
    /\ LET r == validate_signature(hs[i].actor, "post", hs[i].req.path, hs[i].req.headers) IN
       hs' = [hs EXCEPT ![i] =
             IF r.kind = "Ok" THEN [hs[i] EXCEPT !.pc = "validate_request", !.verified = TRUE]
              ELSE Finish(hs[i], r)]
    /\ UNCHANGED <<sg, inboxes, object_cache, uuids, dbLog>>

\* post, line 41: validate_request(&actor, &req.ty, &state).await?
ValidateRequest(i) ==
    /\ hs[i].pc = "validate_request"
    /\ LET r == validate_request(hs[i].actor, hs[i].req.ty, inboxes)
           dom == host_from_uri(hs[i].actor.id)
       IN hs' = [hs EXCEPT ![i] =
                IF r.kind = "Ok"
                 THEN [hs[i] EXCEPT !.pc = "dispatch", !.authorized = TRUE,
                                !.known = dom.ok /\ dom.host \in DOMAIN inboxes]
                 ELSE Finish([hs[i] EXCEPT !.known = dom.ok /\ dom.host \in DOMAIN inboxes], r)]
    /\ UNCHANGED <<sg, inboxes, object_cache, uuids, dbLog>>

\* post, lines 43-51: the match on req.ty
Dispatch(i) ==
    /\ hs[i].pc = "dispatch"
    /\ hs' = [hs EXCEPT ![i] =
             CASE hs[i].req.ty \in {"Announce", "Create"} -> [hs[i] EXCEPT !.pc = "handle_relay"]
                [] hs[i].req.ty \in {"Delete", "Update"} -> [hs[i] EXCEPT !.pc = "handle_forward"]
                [] hs[i].req.ty = "Follow" -> [hs[i] EXCEPT !.pc = "handle_follow"]
                [] hs[i].req.ty = "Undo" -> [hs[i] EXCEPT !.pc = "handle_undo"]
                [] OTHER -> Finish(hs[i], RetOk)]
    /\ UNCHANGED <<sg, inboxes, object_cache, uuids, dbLog>>

\* a handle_relay that enters the object into the cache in the step that
\* finds it absent
HandleRelayReserving(i) ==
    /\ hs[i].pc = "handle_relay"
    /\ LET oid == id_from_json(hs[i].req.activity)
           activity_id == MintActivityId(RelayHost, uuids)
       IN IF ~oid.ok
          THEN hs' = [hs EXCEPT ![i] = Finish(hs[i], RetPanic)]
               /\ UNCHANGED <<uuids, object_cache>>
          ELSE IF ~ParseUri(oid.id).ok
          THEN hs' = [hs EXCEPT ![i] = Finish(hs[i], RetErr(InvalidUri(oid.id)))]
               /\ UNCHANGED <<uuids, object_cache>>
          ELSE IF get_from_cache(object_cache, oid.id).some
          THEN hs' = [hs EXCEPT ![i] = Finish(hs[i], RetOk)]
               /\ UNCHANGED <<uuids, object_cache>>
          ELSE /\ uuids' = uuids + 1
               /\ object_cache' = cache_object(object_cache, oid.id, activity_id)
               /\ hs' = [hs EXCEPT ![i] =
                         [hs[i] EXCEPT !.pc = "post_for_actor", !.object_id = oid.id,
                                       !.cache_value = activity_id,
                                       !.message = [ty |-> "Announce", id |-> activity_id,
                                                    object |-> oid.id,
                                                    to |-> Https(RelayHost, "/followers")]]]
    /\ UNCHANGED <<sg, inboxes, dbLog>>

\* handle_relay up to the call of post_for_actor
HandleRelay(i) ==
    /\ hs[i].pc = "handle_relay"
    /\ LET oid == id_from_json(hs[i].req.activity)
           activity_id == MintActivityId(RelayHost, uuids)
       IN IF ~oid.ok
          THEN hs' = [hs EXCEPT ![i] = Finish(hs[i], RetPanic)] /\ UNCHANGED uuids
          ELSE IF ~ParseUri(oid.id).ok
          THEN hs' = [hs EXCEPT ![i] = Finish(hs[i], RetErr(InvalidUri(oid.id)))] /\ UNCHANGED uuids
          ELSE IF get_from_cache(object_cache, oid.id).some
          THEN hs' = [hs EXCEPT ![i] = Finish(hs[i], RetOk)] /\ UNCHANGED uuids
          ELSE /\ uuids' = uuids + 1
               /\ hs' = [hs EXCEPT ![i] =
                        [hs[i] EXCEPT !.pc = "post_for_actor", !.object_id = oid.id,
                                   !.cache_value = activity_id,
                                   !.message = [ty |-> "Announce", id |-> activity_id,
                                                object |-> oid.id,
                                                to |-> Https(RelayHost, "/followers")]]]
    /\ UNCHANGED <<sg, inboxes, object_cache, dbLog>>

\* a handle_forward that does not ask the cache
HandleForwardAlways(i) ==
    /\ hs[i].pc = "handle_forward"
    /\ LET oid == id_from_json(hs[i].req.activity) IN
       hs' = [hs EXCEPT ![i] =
             IF ~oid.ok THEN Finish(hs[i], RetPanic)
              ELSE [hs[i] EXCEPT !.pc = "post_for_actor", !.object_id = oid.id,
                             !.cache_value = oid.id,
                             !.message = [ty |-> hs[i].req.ty, id |-> hs[i].req.activity.id,
                                          object |-> oid.id, to |-> <<>>]]]
    /\ UNCHANGED <<sg, inboxes, object_cache, uuids, dbLog>>

\* handle_forward up to the call of post_for_actor
HandleForward(i) ==
    /\ hs[i].pc = "handle_forward"
    /\ LET oid == id_from_json(hs[i].req.activity) IN
       hs' = [hs EXCEPT ![i] =
             IF ~oid.ok THEN Finish(hs[i], RetPanic)
              ELSE IF get_from_cache(object_cache, oid.id).some THEN Finish(hs[i], RetOk)
              ELSE [hs[i] EXCEPT !.pc = "post_for_actor", !.object_id = oid.id,
                             !.cache_value = oid.id,
                             !.message = [ty |-> hs[i].req.ty, id |-> hs[i].req.activity.id,
                                          object |-> oid.id, to |-> <<>>]]]
    /\ UNCHANGED <<sg, inboxes, object_cache, uuids, dbLog>>

\* post_for_actor, line 38: the recipients
PostForActor(i) ==
    /\ hs[i].pc = "post_for_actor"
    /\ LET r == inboxes_for_actor(inboxes, hs[i].actor, hs[i].object_id) IN
       hs' = [hs EXCEPT ![i] =
             IF ~r.ok THEN Finish(hs[i], RetErr(r.err))
              ELSE [hs[i] EXCEPT !.pc = "try_join_all", !.pending = r.inboxes, !.res = RetOk]]
    /\ UNCHANGED <<sg, inboxes, object_cache, uuids, dbLog>>

\* post_for_actor, lines 42-48: one delivery of the fan-out ends; the first
\* failure ends try_join_all and drops the deliveries still pending
Deliver(i) ==
    /\ hs[i].pc = "try_join_all"
    /\ \E to \in hs[i].pending, o \in PostOutcomes :
          LET r == json_post(to, o) IN
          hs' = [hs EXCEPT ![i] =
                IF r.kind = "Ok"
                 THEN [hs[i] EXCEPT !.pending = hs[i].pending \ {to},
                                !.posts = Append(hs[i].posts, Post(to, hs[i].message, TRUE))]
                 ELSE [hs[i] EXCEPT !.pending = {}, !.dropped = hs[i].pending \ {to}, !.res = r,
                                !.posts = Append(hs[i].posts, Post(to, hs[i].message, FALSE))]]
    /\ UNCHANGED <<sg, inboxes, object_cache, uuids, dbLog>>

\* a post_for_actor that enters the object in the cache only when every
\* delivery succeeded
CacheObjectOnSuccess(i) ==
    /\ hs[i].pc = "try_join_all"
    /\ hs[i].pending = {}
    /\ object_cache' = IF hs[i].res.kind = "Ok"
                       THEN cache_object(object_cache, hs[i].object_id, hs[i].cache_value)
                       ELSE object_cache
    /\ hs' = [hs EXCEPT ![i] =
             Finish([hs[i] EXCEPT !.cacheWrites =
                        hs[i].cacheWrites + (IF hs[i].res.kind = "Ok" THEN 1 ELSE 0)],
                    hs[i].res)]
    /\ UNCHANGED <<sg, inboxes, uuids, dbLog>>

\* post_for_actor, lines 50-52: cache_object, then the result of the fan-out
CacheObject(i) ==
    /\ hs[i].pc = "try_join_all"
    /\ hs[i].pending = {}
    /\ object_cache' = cache_object(object_cache, hs[i].object_id, hs[i].cache_value)
    /\ hs' = [hs EXCEPT ![i] =
             Finish([hs[i] EXCEPT !.cacheWrites = hs[i].cacheWrites + 1], hs[i].res)]
    /\ UNCHANGED <<sg, inboxes, uuids, dbLog>>

\* handle_follow, lines 141-152: add_inbox_if_unknown(inbox)?
HandleFollow(i) ==
    /\ hs[i].pc = "handle_follow"
    /\ LET r == add_inbox_if_unknown(inboxes, hs[i].actor.inbox)
           hst == host_from_uri(hs[i].actor.inbox)
           hh == [hs[i] EXCEPT !.knownAtAdd = hst.ok /\ hst.host \in DOMAIN inboxes,
                           !.added = r.added,
                           !.regWrites = hs[i].regWrites + (IF r.db # inboxes THEN 1 ELSE 0)]
       IN /\ inboxes' = r.db
          /\ hs' = [hs EXCEPT ![i] =
                   IF ~r.ok THEN Finish(hh, RetErr(r.err))
                    ELSE IF r.added THEN [hh EXCEPT !.pc = "follow_actor"]
                    ELSE [hh EXCEPT !.pc = "accept"]]
    /\ UNCHANGED <<sg, object_cache, uuids, dbLog>>

\* client.rs follow_actor, line 162: get_actor(actor_uri).await?
FollowActorGet(i) ==
    /\ hs[i].pc = "follow_actor"
    /\ \E o \in GetOutcomes :
          LET r == get_actor(hs[i].actor.id, o) IN
          hs' = [hs EXCEPT ![i] =
                IF r.ok
                 THEN [hs[i] EXCEPT !.pc = "follow_actor_post",
                                !.message = [ty |-> "Follow",
                                             id |-> MintActivityId(base_url, uuids),
                                             object |-> r.actor.id, to |-> r.actor.inbox]]
                 ELSE Finish(hs[i], RetErr(r.err))]
    /\ uuids' = IF hs'[i].pc = "follow_actor_post" THEN uuids + 1 ELSE uuids
    /\ UNCHANGED <<sg, inboxes, object_cache, dbLog>>

\* a handle_follow that returns once the new inbox has been followed
FollowActorPostThenReturn(i) ==
    /\ hs[i].pc = "follow_actor_post"
    /\ \E o \in PostOutcomes :
          LET r == json_post(hs[i].message.to, o)
              hh == [hs[i] EXCEPT !.posts = Append(hs[i].posts, Post(hs[i].message.to, hs[i].message, r.kind = "Ok"))]
          IN hs' = [hs EXCEPT ![i] =
                   Finish(hh, r)]
    /\ UNCHANGED <<sg, inboxes, object_cache, uuids, dbLog>>

\* a follow_actor whose failed POST takes the new registry entry back
FollowActorPostRollback(i) ==
    /\ hs[i].pc = "follow_actor_post"
    /\ \E o \in PostOutcomes :
          LET r == json_post(hs[i].message.to, o)
              hh == [hs[i] EXCEPT !.posts = Append(hs[i].posts, Post(hs[i].message.to, hs[i].message, r.kind = "Ok"))]
          IN /\ hs' = [hs EXCEPT ![i] =
                      IF r.kind = "Ok" THEN [hh EXCEPT !.pc = "accept"] ELSE Finish(hh, r)]
             /\ inboxes' = IF r.kind = "Ok" THEN inboxes
                           ELSE MapRemove(inboxes, host_from_uri(hs[i].actor.inbox).host)
    /\ UNCHANGED <<sg, object_cache, uuids, dbLog>>

\* client.rs follow_actor, line 176: json_post(inbox, message).await?
FollowActorPost(i) ==
    /\ hs[i].pc = "follow_actor_post"
    /\ \E o \in PostOutcomes :
          LET r == json_post(hs[i].message.to, o)
              hh == [hs[i] EXCEPT !.posts = Append(hs[i].posts, Post(hs[i].message.to, hs[i].message, r.kind = "Ok"))]
          IN hs' = [hs EXCEPT ![i] =
                   IF r.kind = "Ok" THEN [hh EXCEPT !.pc = "accept"] ELSE Finish(hh, r)]
    /\ UNCHANGED <<sg, inboxes, object_cache, uuids, dbLog>>

\* handle_follow, lines 154-188: build the Accept and post it to the inbox
Accept(i) ==
    /\ hs[i].pc = "accept"
    /\ LET oid == id_from_json(hs[i].req.activity)
           msg == [ty |-> "Accept", id |-> MintActivityId(RelayHost, uuids),
                   object |-> oid.id, to |-> hs[i].actor.id]
       IN IF ~oid.ok
          THEN hs' = [hs EXCEPT ![i] = Finish(hs[i], RetPanic)] /\ UNCHANGED uuids
          ELSE IF ~ParseUri(oid.id).ok
          THEN hs' = [hs EXCEPT ![i] = Finish(hs[i], RetErr(InvalidUri(oid.id)))] /\ UNCHANGED uuids
          ELSE /\ uuids' = uuids + 1
               /\ \E o \in PostOutcomes :
                     LET r == json_post(hs[i].actor.inbox, o) IN
                     hs' = [hs EXCEPT ![i] =
                           Finish([hs[i] EXCEPT !.posts = Append(hs[i].posts,
                                          Post(hs[i].actor.inbox, msg, r.kind = "Ok"))], r)]
    /\ UNCHANGED <<sg, inboxes, object_cache, dbLog>>

\* a handle_undo that unfollows the actor and leaves its registry entry
HandleUndoKeep(i) ==
    /\ hs[i].pc = "handle_undo"
    /\ LET ty == object_type(hs[i].req.activity)
           r == remove_inbox_get(inboxes, hs[i].actor.id)
       IN IF ~ty.some
          THEN /\ hs' = [hs EXCEPT ![i] =
                        Finish(hs[i], RetErr(StatusAndMessage(400, "no object type")))]
               /\ UNCHANGED inboxes
          ELSE IF ty.ty = "Follow"
          THEN /\ inboxes' = r.db
               /\ hs' = [hs EXCEPT ![i] =
                        IF r.ok
                         THEN [hs[i] EXCEPT !.pc = "unfollow_actor", !.regWrites = hs[i].regWrites + 1]
                         ELSE Finish(hs[i], RetErr(r.err))]
          ELSE IF ty.ty = "Announce"
          THEN hs' = [hs EXCEPT ![i] = [hs[i] EXCEPT !.pc = "handle_forward"]] /\ UNCHANGED inboxes
          ELSE hs' = [hs EXCEPT ![i] = Finish(hs[i], RetOk)] /\ UNCHANGED inboxes
    /\ UNCHANGED <<sg, object_cache, uuids, dbLog>>

\* a handle_undo that forwards an Undo of anything but a Follow
HandleUndoForwardOthers(i) ==
    /\ hs[i].pc = "handle_undo"
    /\ LET ty == object_type(hs[i].req.activity)
           r == remove_inbox(inboxes, hs[i].actor.id)
       IN IF ~ty.some
          THEN /\ hs' = [hs EXCEPT ![i] =
                        Finish(hs[i], RetErr(StatusAndMessage(400, "no object type")))]
               /\ UNCHANGED inboxes
          ELSE IF ty.ty = "Follow"
          THEN /\ inboxes' = r.db
               /\ hs' = [hs EXCEPT ![i] =
                        IF r.ok
                         THEN [hs[i] EXCEPT !.pc = "unfollow_actor", !.regWrites = hs[i].regWrites + 1]
                         ELSE Finish(hs[i], RetErr(r.err))]
          ELSE hs' = [hs EXCEPT ![i] = [hs[i] EXCEPT !.pc = "handle_forward"]] /\ UNCHANGED inboxes
    /\ UNCHANGED <<sg, object_cache, uuids, dbLog>>

\* handle_undo: the nested type, and remove_inbox for an Undo of a Follow
HandleUndo(i) ==
    /\ hs[i].pc = "handle_undo"
    /\ LET ty == object_type(hs[i].req.activity)
           r == remove_inbox(inboxes, hs[i].actor.id)
       IN IF ~ty.some
          THEN /\ hs' = [hs EXCEPT ![i] =
                        Finish(hs[i], RetErr(StatusAndMessage(400, "no object type")))]
               /\ UNCHANGED inboxes
          ELSE IF ty.ty = "Follow"
          THEN /\ inboxes' = r.db
               /\ hs' = [hs EXCEPT ![i] =
                        IF r.ok
                         THEN [hs[i] EXCEPT !.pc = "unfollow_actor", !.regWrites = hs[i].regWrites + 1]
                         ELSE Finish(hs[i], RetErr(r.err))]
          ELSE IF ty.ty = "Announce"
          THEN hs' = [hs EXCEPT ![i] = [hs[i] EXCEPT !.pc = "handle_forward"]] /\ UNCHANGED inboxes
          ELSE hs' = [hs EXCEPT ![i] = Finish(hs[i], RetOk)] /\ UNCHANGED inboxes
    /\ UNCHANGED <<sg, object_cache, uuids, dbLog>>

\* client.rs unfollow_actor, line 136: get_actor(actor_uri).await?
UnfollowActorGet(i) ==
    /\ hs[i].pc = "unfollow_actor"
    /\ \E o \in GetOutcomes :
          LET r == get_actor(hs[i].actor.id, o) IN
          hs' = [hs EXCEPT ![i] =
                IF r.ok
                 THEN [hs[i] EXCEPT !.pc = "unfollow_actor_post",
                                !.message = [ty |-> "Undo",
                                             id |-> MintActivityId(base_url, uuids + 1),
                                             object |-> MintActivityId(base_url, uuids),
                                             to |-> r.actor.inbox]]
                 ELSE Finish(hs[i], RetErr(r.err))]
    /\ uuids' = IF hs'[i].pc = "unfollow_actor_post" THEN uuids + 2 ELSE uuids
    /\ UNCHANGED <<sg, inboxes, object_cache, dbLog>>

\* client.rs unfollow_actor, line 156: json_post(inbox, message).await?
UnfollowActorPost(i) ==
    /\ hs[i].pc = "unfollow_actor_post"
    /\ \E o \in PostOutcomes :
          LET r == json_post(hs[i].message.to, o) IN
          hs' = [hs EXCEPT ![i] =
                Finish([hs[i] EXCEPT !.posts = Append(hs[i].posts,
                               Post(hs[i].message.to, hs[i].message, r.kind = "Ok"))], r)]
    /\ UNCHANGED <<sg, inboxes, object_cache, uuids, dbLog>>

\* the response has gone out; the handler task ends
Respond(i) ==
    /\ hs[i].pc = "done"
    /\ hs' = [hs EXCEPT ![i] =
             HIdle]
    /\ UNCHANGED <<sg, inboxes, object_cache, uuids, dbLog>>

-----------------------------------------------------------------------------
(* Specifications *)

\* State::new on the Db that Db::new opened
Init ==
    /\ sg = SgOff
    /\ inboxes \in StartRegistries
    /\ object_cache = EmptyMap
    /\ uuids = 0
    /\ hs = [i \in Handlers |-> HIdle]
    /\ dbLog = <<>>

\* the handler task that serves requests one after the other
Sequential == {First}

Next ==
    \E i \in Sequential :
       \/ Receive(i)
       \/ GetActor(i)
       \/ ValidateSignature(i)
       \/ ValidateRequest(i)
       \/ Dispatch(i)
       \/ HandleRelay(i)
       \/ HandleForward(i)
       \/ PostForActor(i)
       \/ Deliver(i)
       \/ CacheObject(i)
       \/ HandleFollow(i)
       \/ FollowActorGet(i)
       \/ FollowActorPost(i)
       \/ Accept(i)
       \/ HandleUndo(i)
       \/ UnfollowActorGet(i)
       \/ UnfollowActorPost(i)
       \/ Respond(i)

\* the relay serving inbox requests one after the other
Spec == Init /\ [][Next]_vars

\* the steps of the handler task between the arrival of a request and the
\* end of its handling
HandlerStep(i) ==
    \/ GetActor(i)
    \/ ValidateSignature(i)
    \/ ValidateRequest(i)
    \/ Dispatch(i)
    \/ HandleRelay(i)
    \/ HandleForward(i)
    \/ PostForActor(i)
    \/ Deliver(i)
    \/ CacheObject(i)
    \/ HandleFollow(i)
    \/ FollowActorGet(i)
    \/ FollowActorPost(i)
    \/ Accept(i)
    \/ HandleUndo(i)
    \/ UnfollowActorGet(i)
    \/ UnfollowActorPost(i)

\* the same relay with a runtime that keeps running a task that can run,
\* and outbound HTTP calls that complete or fail in the end
LiveSpec == Init /\ [][Next]_vars /\ WF_vars(HandlerStep(First))

SigInit ==
    /\ sg \in { SgInput(u, d, k, dt) :
                   u \in SignUris, d \in {NoData} \cup {SomeData(b) : b \in Bodies},
                   k \in Keys, dt \in Dates }
    /\ inboxes = EmptyMap
    /\ object_cache = EmptyMap
    /\ uuids = 0
    /\ hs = [i \in Handlers |-> HIdle]
    /\ dbLog = <<>>

SigNext == SgSign \/ SgSignRemote \/ SgTamper \/ SgValidate

\* the codec on its own: sign, perhaps tamper, validate
SigSpec == SigInit /\ [][SigNext]_vars

DbNext == DbAdd \/ DbRemove

\* the registry on its own: add_inbox_if_unknown and remove_inbox calls
DbSpec == Init /\ [][DbNext]_vars

\* two relay requests for objects of a.example and b.example, no Signature
\* damage, each on a task of its own
RelayRequests ==
    { Request(ty, a, o, "valid") :
         ty \in {"Announce", "Create"}, a \in Senders,
         o \in {StrObject(Note1), Object("Note", Note2)} }

ReceiveRelay(i) ==
    /\ hs[i].pc = "idle"
    /\ uuids < MaxUuids
    /\ \E r \in RelayRequests :
          hs' = [hs EXCEPT ![i] =
                   [HIdle EXCEPT !.pc = "get_actor", !.req = r,
                                 !.pre = [inboxes |-> inboxes, cache |-> object_cache]]]
    /\ UNCHANGED <<sg, inboxes, object_cache, uuids, dbLog>>

\* a task calls Db::add_inbox_if_unknown(inbox)
AddInboxCall(i) ==
    /\ hs[i].pc = "idle"
    /\ Len(dbLog) + Cardinality({j \in Handlers : hs[j].pc # "idle"}) < MaxCalls
    /\ \E u \in DbUrls :
          hs' = [hs EXCEPT ![i] =
                   [HIdle EXCEPT !.pc = "add_read", !.inbox = u,
                                 !.known = /\ host_from_uri(u).ok
                                           /\ host_from_uri(u).host \in DOMAIN inboxes]]
    /\ UNCHANGED <<sg, inboxes, object_cache, uuids, dbLog>>

\* add_inbox_if_unknown, lines 99-103: host_from_uri(&inbox)?, then the test
\* under the read guard, which is released at the end of the condition
AddInboxRead(i) ==
    /\ hs[i].pc = "add_read"
    /\ LET hst == host_from_uri(hs[i].inbox)
           entry(ok, added) ==
              [op |-> "add", arg |-> hs[i].inbox, ok |-> ok, added |-> added,
               host |-> hst.host, known |-> hs[i].known]
       IN IF ~hst.ok
          THEN hs' = [hs EXCEPT ![i] = HIdle] /\ dbLog' = Append(dbLog, entry(FALSE, FALSE))
          ELSE IF hs[i].inbox \in DOMAIN inboxes
          THEN hs' = [hs EXCEPT ![i] = HIdle] /\ dbLog' = Append(dbLog, entry(TRUE, FALSE))
          ELSE hs' = [hs EXCEPT ![i] = [hs[i] EXCEPT !.pc = "add_write"]] /\ UNCHANGED dbLog
    /\ UNCHANGED <<sg, inboxes, object_cache, uuids>>

\* add_inbox_if_unknown, lines 104-105: the insert under the write guard
AddInboxWrite(i) ==
    /\ hs[i].pc = "add_write"
    /\ LET hst == host_from_uri(hs[i].inbox) IN
       /\ inboxes' = MapInsert(inboxes, hst.host, hs[i].inbox)
       /\ dbLog' = Append(dbLog,
             [op |-> "add", arg |-> hs[i].inbox, ok |-> TRUE, added |-> TRUE,
              host |-> hst.host, known |-> hs[i].known])
    /\ hs' = [hs EXCEPT ![i] = HIdle]
    /\ UNCHANGED <<sg, object_cache, uuids>>

RegNext ==
    \E i \in Handlers :
       \/ AddInboxCall(i)
       \/ AddInboxRead(i)
       \/ AddInboxWrite(i)

\* two tasks calling add_inbox_if_unknown at the same time
RegSpec == Init /\ [][RegNext]_vars

\* The locks of State and Db, and the steps at which a handler takes one,
\* drops one, or awaits an outbound HTTP call. A guard is a temporary of the
\* statement that takes it (of the condition, for the `if` of
\* add_inbox_if_unknown) and is dropped where that ends.

CacheMutex == "object_cache"
ReadGuard == "inboxes.read"
WriteGuard == "inboxes.write"

Acquire(l) == [op |-> "acquire", lock |-> l]
Release(l) == [op |-> "release", lock |-> l]
Await == [op |-> "await", lock |-> ""]

\* State::get_from_cache, state.rs:55-57
get_from_cache_locks == <<Acquire(CacheMutex), Release(CacheMutex)>>

\* State::cache_object, state.rs:59-64
cache_object_locks == <<Acquire(CacheMutex), Release(CacheMutex)>>

\* Db::inbox, state.rs:121-125
db_inbox_locks == <<Acquire(ReadGuard), Release(ReadGuard)>>

\* Db::inboxes_for_actor, state.rs:127-139
inboxes_for_actor_locks == <<Acquire(ReadGuard), Release(ReadGuard)>>

\* Db::remove_inbox, state.rs:109-119
remove_inbox_locks == <<Acquire(WriteGuard), Release(WriteGuard)>>

\* an add_inbox_if_unknown whose read guard lives as long as the branches,
\* as the scrutinee of a match would
add_inbox_if_unknown_locks_held ==
    <<Acquire(ReadGuard), Acquire(WriteGuard), Release(WriteGuard), Release(ReadGuard)>>

\* Db::add_inbox_if_unknown, state.rs:98-107, when it inserts
add_inbox_if_unknown_locks ==
    <<Acquire(ReadGuard), Release(ReadGuard), Acquire(WriteGuard), Release(WriteGuard)>>

\* State::post_for_actor, state.rs:31-53
post_for_actor_locks == inboxes_for_actor_locks \o <<Await>> \o cache_object_locks

\* handle_relay and handle_forward: object cached, or not
handle_relay_locks == {get_from_cache_locks, get_from_cache_locks \o post_for_actor_locks}

\* handle_follow: add_inbox_if_unknown, follow_actor (GET, POST), Accept POST
handle_follow_locks == {add_inbox_if_unknown_locks \o <<Await, Await, Await>>}

\* handle_undo of a Follow: remove_inbox, unfollow_actor (GET, POST)
handle_undo_locks == {remove_inbox_locks \o <<Await, Await>>}

\* post: get_actor, validate_request, then the handler of the type, if any
post_locks ==
    { <<Await>> \o db_inbox_locks \o p :
         p \in handle_relay_locks \cup handle_follow_locks \cup handle_undo_locks
                  \cup {<<>>} }

\* Mutex::lock and the RwLock of AcidJson: can task i take lock l now?
Available(l, i) ==
    CASE l = CacheMutex -> \A j \in Handlers : CacheMutex \notin hs[j].holds
      [] l = ReadGuard -> \A j \in Handlers : WriteGuard \notin hs[j].holds
      [] l = WriteGuard -> \A j \in Handlers : hs[j].holds \cap {ReadGuard, WriteGuard} = {}

LkReceive(i) ==
    /\ hs[i].pc = "idle"
    /\ \E p \in post_locks : hs' = [hs EXCEPT ![i] = [HIdle EXCEPT !.pc = "locks", !.ops = p]]
    /\ UNCHANGED <<sg, inboxes, object_cache, uuids, dbLog>>

LkAcquire(i) ==
    /\ hs[i].pc = "locks" /\ hs[i].ops # <<>>
    /\ Head(hs[i].ops).op = "acquire"
    /\ Available(Head(hs[i].ops).lock, i)
    /\ hs' = [hs EXCEPT ![i] = [hs[i] EXCEPT !.holds = hs[i].holds \cup {Head(hs[i].ops).lock},
                                            !.ops = Tail(hs[i].ops)]]
    /\ UNCHANGED <<sg, inboxes, object_cache, uuids, dbLog>>

LkRelease(i) ==
    /\ hs[i].pc = "locks" /\ hs[i].ops # <<>>
    /\ Head(hs[i].ops).op = "release"
    /\ hs' = [hs EXCEPT ![i] = [hs[i] EXCEPT !.holds = hs[i].holds \ {Head(hs[i].ops).lock},
                                            !.ops = Tail(hs[i].ops)]]
    /\ UNCHANGED <<sg, inboxes, object_cache, uuids, dbLog>>

\* the outbound HTTP call the task awaits completes or fails
LkAwait(i) ==
    /\ hs[i].pc = "locks" /\ hs[i].ops # <<>>
    /\ Head(hs[i].ops).op = "await"
    /\ hs' = [hs EXCEPT ![i] = [hs[i] EXCEPT !.ops = Tail(hs[i].ops)]]
    /\ UNCHANGED <<sg, inboxes, object_cache, uuids, dbLog>>

LkRespond(i) ==
    /\ hs[i].pc = "locks" /\ hs[i].ops = <<>>
    /\ hs' = [hs EXCEPT ![i] = [hs[i] EXCEPT !.pc = "idle"]]
    /\ UNCHANGED <<sg, inboxes, object_cache, uuids, dbLog>>

LockNext ==
    \E i \in Handlers :
       \/ LkReceive(i)
       \/ LkAcquire(i)
       \/ LkRelease(i)
       \/ LkAwait(i)
       \/ LkRespond(i)

\* two handler tasks and the locks they take
LockSpec == Init /\ [][LockNext]_vars

ConcInit == Init /\ inboxes = Persisted

ConcNext ==
    \E i \in Handlers :
       \/ ReceiveRelay(i)
       \/ GetActor(i)
       \/ ValidateSignature(i)
       \/ ValidateRequest(i)
       \/ Dispatch(i)
       \/ HandleRelay(i)
       \/ PostForActor(i)
       \/ Deliver(i)
       \/ CacheObject(i)

\* two inbox requests served at the same time, each by a task that ends
\* with its response
ConcSpec == ConcInit /\ [][ConcNext]_vars

-----------------------------------------------------------------------------
(* Properties *)

\* the task of the sequential relay
h == hs[First]

Done == h.pc = "done"
ActorFetched == h.actor # NoActor
Unchanged == inboxes = h.pre.inboxes /\ object_cache = h.pre.cache
NoEffect == h.regWrites = 0 /\ h.cacheWrites = 0 /\ h.posts = <<>> /\ Unchanged
RespondedWith(status, error) ==
    h.resp.kind = "err" /\ h.resp.status = status /\ h.resp.error = error

\* the outbound POSTs of this request that carry an activity of type ty to inbox to
PostsOf(ty, to) == {i \in 1..Len(h.posts) : h.posts[i].ty = ty /\ h.posts[i].to = to}

\* no registry write, cache write or outbound POST of a request before
\* validate_signature returned Ok for it
NoEffectUnverified ==
    (h.regWrites > 0 \/ h.cacheWrites > 0 \/ h.posts # <<>>) => h.verified

\* C1: no registry write, dedup-cache write or outbound POST happens before
\* validate_signature returned Ok for the request, and a request whose
\* Signature header is present but does not verify is answered 401
\* "invalid HTTP signature" with registry and cache as they were.
C1_FailClosedInvalidSignature ==
    /\ NoEffectUnverified
    /\ (Done /\ ActorFetched /\ ~h.verified /\ HSignature \in DOMAIN h.req.headers)
          => (RespondedWith(401, "invalid HTTP signature") /\ NoEffect)

C3_SignValidateRoundTrip ==
    (sg.stage = "checked" /\ sg.tamper = "none" /\ sg.vkey = sg.key /\ sg.vmethod = sg.method)
       => sg.res.kind = "Ok"

\* C3 witness: a signed POST with a body has been validated and accepted
C3_Witness ==
    /\ sg.stage = "checked" /\ sg.tamper = "none" /\ sg.vkey = sg.key
    /\ sg.vmethod = sg.method /\ sg.data.some /\ sg.res.kind = "Ok"

\* C4: from a signed request that verifies, changing exactly one of the date
\* header, the digest header, the body or the path makes validate_signature fail.
C4_AnyTamperRejected ==
    (sg.stage = "checked" /\ sg.tamper \in {"date", "digest", "body", "path"}
        /\ sg.vkey = sg.key /\ sg.vmethod = sg.method)
       => sg.res.kind # "Ok"

\* the id of the fetched actor is a URI with a host: the actor has a domain
HasDomain == host_from_uri(h.actor.id).ok

\* C5: a verified request of a type other than Follow whose actor domain has
\* no registry entry is answered 401 "access denied"; it changes neither
\* registry nor cache and sends nothing.
C5_UnknownDomainDenied ==
    (Done /\ h.verified /\ HasDomain /\ h.req.ty # "Follow" /\ ~h.known)
       => (RespondedWith(401, "access denied") /\ NoEffect /\ ~h.authorized)

\* C5 witness: an Undo from an unregistered domain denied while another
\* domain is registered
C5_Witness ==
    /\ Done /\ h.verified /\ h.req.ty = "Undo" /\ ~h.known
    /\ inboxes # EmptyMap /\ RespondedWith(401, "access denied")

\* C6: authorization succeeds for a Follow whatever the registry holds, and
\* for every activity type when the actor's domain is in the registry.
C6_AuthorizationSucceeds ==
    (h.verified /\ HasDomain /\ h.pc # "validate_request"
        /\ (h.req.ty = "Follow" \/ h.known))
       => (h.authorized /\ ~RespondedWith(401, "access denied"))

\* C6 witness: a Delete from a registered domain has passed authorization
C6_Witness ==
    /\ h.verified /\ h.req.ty = "Delete" /\ h.known /\ h.authorized
    /\ h.pc = "handle_forward"

FollowStepOk ==
    h.added => \E i \in 1..Len(h.posts) : h.posts[i].ty = "Follow" /\ h.posts[i].ok

\* the nested object id of the inbound activity is there and parses as a URI
ObjectIdOk ==
    id_from_json(h.req.activity).ok /\ ParseUri(id_from_json(h.req.activity).id).ok

C9_NoFollowForKnownDomain ==
    (h.req.ty = "Follow" /\ h.knownAtAdd)
       => \A i \in 1..Len(h.posts) : h.posts[i].ty # "Follow"

\* C10: add_inbox_if_unknown returns true only if no entry existed for
\* host(inboxUrl); on a registry without an entry for a domain two
\* successive calls with inbox URLs of that domain return true then false.
C10_AddIdempotentPerDomain ==
    /\ \A i \in 1..Len(dbLog) :
          (dbLog[i].op = "add" /\ dbLog[i].added) => ~dbLog[i].known
    /\ \A i \in 1..(Len(dbLog) - 1) :
          (/\ dbLog[i].op = "add" /\ dbLog[i + 1].op = "add"
           /\ dbLog[i].ok /\ dbLog[i + 1].ok
           /\ dbLog[i].host = dbLog[i + 1].host /\ ~dbLog[i].known)
             => (dbLog[i].added /\ ~dbLog[i + 1].added)

\* the object id the inbound activity of the sequential task refers to
ObjectId == id_from_json(h.req.activity)

\* C11: when an Announce or Create arrives for an object id that an earlier
\* request left in the dedup cache, its handling performs no outbound POST
\* and the cache entry of that object id stays what it was.
C11_RedeliveryNoFanout ==
    (/\ h.req.ty \in {"Announce", "Create"} /\ h.verified
     /\ ObjectId.ok /\ ObjectId.id \in DOMAIN h.pre.cache)
       => /\ h.posts = <<>>
          /\ ObjectId.id \in DOMAIN object_cache
          /\ object_cache[ObjectId.id] = h.pre.cache[ObjectId.id]

\* C11 witness: a Create for an object that an earlier Announce or Create
\* had relayed (the cache holds a minted activity id for it), answered 200
C11_Witness ==
    /\ Done /\ h.req.ty = "Create" /\ h.verified /\ h.authorized
    /\ ObjectId.ok /\ ObjectId.id \in DOMAIN h.pre.cache
    /\ h.pre.cache[ObjectId.id] # ObjectId.id
    /\ h.resp.kind = "ok" /\ h.posts = <<>>

\* task i found its object absent from the cache and went on to relay it
PastCheck(i) == hs[i].req.ty \in {"Announce", "Create"} /\ hs[i].object_id # <<>>

\* the successful deliveries of object o to inbox `to`, over both tasks
Relayed(o, to) ==
    UNION { { <<i, n>> : n \in { m \in 1..Len(hs[i].posts) :
                                   /\ hs[i].posts[m].to = to
                                   /\ hs[i].posts[m].object = o
                                   /\ hs[i].posts[m].ok } } : i \in Handlers }

\* C12: the cache keeps saying "absent" for an object from a task's check
\* until a task's cache_object, which comes after the fan-out; so two tasks
\* that both pass the check for one object and both end with 200 have each
\* delivered it, and an inbox that is a recipient of both has been sent two
\* relayed messages for the one object.
C12_DedupNotAtomic ==
    /\ \A i \in Handlers :
          (PastCheck(i) /\ \A j \in Handlers : hs[j].cacheWrites = 0)
             => hs[i].object_id \notin DOMAIN object_cache
    /\ \A i, j \in Handlers :
          (/\ i # j /\ PastCheck(i) /\ PastCheck(j)
           /\ hs[i].object_id = hs[j].object_id
           /\ hs[i].pc = "done" /\ hs[j].pc = "done"
           /\ hs[i].resp.kind = "ok" /\ hs[j].resp.kind = "ok")
             => \A to \in { hs[i].posts[n].to : n \in 1..Len(hs[i].posts) }
                         \cap { hs[j].posts[n].to : n \in 1..Len(hs[j].posts) } :
                   Cardinality(Relayed(hs[i].object_id, to)) = 2

\* C12 witness: both tasks were sent the same uncached object, both found it
\* absent, both answered 200, and c.example's inbox was sent it twice
C12_Witness ==
    /\ PastCheck(First) /\ PastCheck(Second)
    /\ hs[First].object_id = hs[Second].object_id
    /\ hs[First].pc = "done" /\ hs[Second].pc = "done"
    /\ hs[First].resp.kind = "ok" /\ hs[Second].resp.kind = "ok"
    /\ Cardinality(Relayed(hs[First].object_id, ActorC.inbox)) = 2

\* the inbound activity is an Undo whose nested object has type Follow
UndoFollow == h.req.ty = "Undo" /\ object_type(h.req.activity) = [some |-> TRUE, ty |-> "Follow"]

\* handle_undo has made its call of remove_inbox
UndoActed == h.pc \in {"unfollow_actor", "unfollow_actor_post", "done"}

C14_UnregisteredUndoNotFound ==
    (Done /\ UndoFollow /\ h.verified /\ ~h.known)
       => (RespondedWith(404, "unknown inbox") /\ h.posts = <<>>)

\* C14 (amended): a verified Undo of a Follow from an actor whose domain is
\* not registered when the request is authorized is answered 401 "access
\* denied" by validate_request, with no registry or cache change and nothing
\* sent; handle_undo is not reached, and no inbox request handled after the
\* others is answered with remove_inbox's "unknown inbox".
C14_UnregisteredUndoDenied ==
    /\ (Done /\ UndoFollow /\ h.verified /\ HasDomain /\ ~h.known)
          => (RespondedWith(401, "access denied") /\ NoEffect /\ ~h.authorized)
    /\ h.resp.error # "unknown inbox"

\* C14 witness: such an Undo, answered 401 "access denied"
C14_Witness ==
    /\ Done /\ UndoFollow /\ h.verified /\ ~h.known
    /\ host_from_uri(h.actor.id).host \notin DOMAIN inboxes
    /\ RespondedWith(401, "access denied")

\* the request of the sequential task got as far as the fan-out of
\* post_for_actor: its recipient list has been computed
InFanout == h.object_id # <<>> /\ h.pc \in {"try_join_all", "done"} /\ h.authorized
               /\ inboxes_for_actor(h.pre.inboxes, h.actor, h.object_id).ok

\* the inboxes a delivery of this request's fan-out ended at, well or badly
Attempted == { h.posts[n].to : n \in 1..Len(h.posts) }

\* every registered inbox but the posting actor's own and the one registered
\* under the host of the object id
ExpectedRecipients ==
    LET reg == h.pre.inboxes
        origin == host_from_uri(h.object_id).host
    IN ({ reg[k] : k \in DOMAIN reg } \ {h.actor.inbox})
          \ { reg[k] : k \in DOMAIN reg \cap {origin} }

\* C15: a failed delivery of a fan-out cancels no other delivery: none is
\* dropped before it has run to completion.
C15_FanoutFailuresIndependent ==
    (InFanout /\ h.res.kind = "Err") => h.dropped = {}

\* the nested object of the inbound activity is what its handler needs: an
\* id that is a URI with a host, and for an Undo a type
WellFormed ==
    /\ ObjectIdOk
    /\ host_from_uri(ObjectId.id).ok
    /\ h.req.ty = "Undo" => object_type(h.req.activity).some

\* C16: every request that passed verification and authorization, with a
\* well-formed nested object, is answered 200 with an empty object whatever
\* became of the outbound calls it made.
C16_AlwaysOk ==
    (Done /\ h.verified /\ h.authorized /\ WellFormed)
       => (h.resp.kind = "ok" /\ h.resp.status = 200)

\* C17: the recipients of a fan-out are exactly the registered inboxes other
\* than the posting actor's own inbox and the inbox registered under the
\* host of the object id; nothing is delivered to the posting actor's inbox
\* or to an inbox of the object's host.
C17_RecipientsExcludeActorAndOrigin ==
    InFanout
       => /\ (Attempted \cup h.pending \cup h.dropped) = ExpectedRecipients
          /\ \A to \in Attempted :
                /\ to # h.actor.inbox
                /\ host_from_uri(to).host # host_from_uri(h.object_id).host

\* C17 witness: b.example announces a note of a.example to a registry of
\* three; the only delivery goes to c.example
C17_Witness ==
    /\ InFanout /\ Done /\ h.resp.kind = "ok"
    /\ h.actor = ActorB /\ h.object_id = Note1
    /\ DOMAIN h.pre.inboxes = DOMAIN Persisted
    /\ Attempted = {ActorC.inbox}

\* C18: when the object is recorded in the dedup cache, and when the
\* response is produced, every recipient of the fan-out has had its delivery
\* attempt end, completed or failed.
C18_PendingUntilAllDelivered ==
    (InFanout /\ (h.cacheWrites > 0 \/ Done)) => Attempted = ExpectedRecipients

\* what validate_signature returns for the request of the sequential task
SignatureResult == validate_signature(h.actor, "post", h.req.path, h.req.headers)

\* C19: for a request that carries a Signature header, validate_signature
\* either accepts it or returns the one error INVALID_SIG (401 "invalid HTTP
\* signature"): it returns no other error and does not panic, and the
\* handler answers accordingly.
C19_OneInvalidSignatureOutcome ==
    (ActorFetched /\ HSignature \in DOMAIN h.req.headers)
       => /\ SignatureResult \in {RetOk, RetErr(INVALID_SIG)}
          /\ (Done /\ ~h.verified) => RespondedWith(401, "invalid HTTP signature")

\* the nested message of the inbound activity is malformed: the handler of
\* its type needs an object id and there is none (no object, or an object
\* with neither a string value nor a string id), or it is an Undo whose
\* object has no type
Malformed ==
    \/ h.req.ty \in {"Announce", "Create", "Delete", "Update", "Follow"} /\ ~ObjectId.ok
    \/ h.req.ty = "Undo" /\ ~object_type(h.req.activity).some

\* C20: a verified and authorized request whose nested message is malformed
\* is answered with status 400, registry and dedup cache as they were.
C20_MalformedIs400 ==
    (Done /\ h.verified /\ h.authorized /\ Malformed)
       => (h.resp.kind = "err" /\ h.resp.status = 400 /\ Unchanged)

\* C21: when the remote server answers the fetch of the sender's actor
\* document with status 404, the request is answered 404 "failed to fetch
\* actor", with no signature check, no registry or cache change and no
\* outbound POST.
C21_Actor404IsNotFound ==
    (Done /\ h.fetch = "status404")
       => /\ RespondedWith(404, "failed to fetch actor")
          /\ ~h.verified /\ NoEffect

\* C22: of two calls of add_inbox_if_unknown for inbox URLs of one domain,
\* both begun while the registry has no entry for that domain, exactly one
\* returns true, however their steps interleave.
C22_AddAtomic ==
    \A m, n \in 1..Len(dbLog) :
       (/\ m < n
        /\ dbLog[m].op = "add" /\ dbLog[n].op = "add"
        /\ dbLog[m].ok /\ dbLog[n].ok
        /\ dbLog[m].host = dbLog[n].host
        /\ ~dbLog[m].known /\ ~dbLog[n].known)
          => (dbLog[m].added # dbLog[n].added)

\* the request of the sequential task is an Announce or Create whose object
\* was not in the cache, and its fan-out is over
RelayOver == InFanout /\ Done /\ h.req.ty \in {"Announce", "Create"}

\* the deliveries of this request that went to inbox `to`
PostsTo(to) == { n \in 1..Len(h.posts) : h.posts[n].to = to }

\* C23: when an Announce or Create for an uncached object id O has been
\* relayed, every recipient has been sent one Announce with object O,
\* addressed to the relay's followers collection, under an id that no
\* earlier cache entry holds, and the cache maps O to that id.
C23_RelayMintsAnnounce ==
    RelayOver
       => /\ \A to \in ExpectedRecipients :
                /\ Cardinality(PostsTo(to)) = 1
                /\ \A n \in PostsTo(to) :
                      /\ h.posts[n].ty = "Announce"
                      /\ h.posts[n].object = h.object_id
                      /\ h.posts[n].id = h.message.id
          /\ h.message.to = Https(RelayHost, "/followers")
          /\ \A k \in DOMAIN h.pre.cache : h.pre.cache[k] # h.message.id
          /\ h.object_id \in DOMAIN object_cache
          /\ object_cache[h.object_id] = h.message.id

\* the request of the sequential task is one handle_forward serves: a
\* Delete, an Update, or an Undo whose nested object has type Announce
Forwarded ==
    /\ h.verified /\ h.authorized /\ ObjectId.ok
    /\ \/ h.req.ty \in {"Delete", "Update"}
       \/ h.req.ty = "Undo" /\ object_type(h.req.activity) = [some |-> TRUE, ty |-> "Announce"]

\* C24: a forwarded activity whose object id O is not in the cache has been
\* delivered as it came to every recipient when its handling is over, and
\* the cache then maps O to O; when O is in the cache already nothing is
\* sent and the cache stays as it is.
C24_ForwardVerbatim ==
    /\ (Forwarded /\ InFanout /\ Done)
          => /\ \A to \in ExpectedRecipients :
                   /\ Cardinality(PostsTo(to)) = 1
                   /\ \A n \in PostsTo(to) :
                         /\ h.posts[n].ty = h.req.ty
                         /\ h.posts[n].id = h.req.activity.id
                         /\ h.posts[n].object = ObjectId.id
             /\ ObjectId.id \in DOMAIN object_cache
             /\ object_cache[ObjectId.id] = ObjectId.id
    /\ (Forwarded /\ ObjectId.id \in DOMAIN h.pre.cache)
          => (h.posts = <<>> /\ object_cache = h.pre.cache)

\* C25: the object that an Accept names is the id of the Follow activity
\* it answers, the id the sender gave that activity.
C25_AcceptEchoesFollowId ==
    \A n \in 1..Len(h.posts) :
       h.posts[n].ty = "Accept" => h.posts[n].object = h.req.activity.id

\* the request has passed the signature check and validate_request, and is
\* one no handler acts on: an Undo whose nested object has a type other than
\* Follow and Announce, or an activity of a type post does not dispatch
Unhandled ==
    /\ h.verified /\ h.authorized
    /\ \/ /\ h.req.ty = "Undo"
          /\ object_type(h.req.activity).some
          /\ object_type(h.req.activity).ty \notin {"Follow", "Announce"}
       \/ h.req.ty \notin {"Announce", "Create", "Delete", "Update", "Follow", "Undo"}

\* C26: a verified Undo from a registered actor whose nested object type is
\* neither Follow nor Announce, and an activity of a type post does not
\* dispatch, writes neither registry nor cache and sends nothing at any
\* point of its handling, and is answered 200 with {}.
C26_UnhandledIsNoop ==
    Unhandled => /\ NoEffect
                 /\ Done => h.resp = Response(RetOk)

C26_UndoLikeAnswered ==
    /\ Unhandled /\ Done /\ h.req.ty = "Undo" /\ h.resp = Response(RetOk)
    /\ host_from_uri(h.actor.id).host \in DOMAIN h.pre.inboxes
    /\ h.pre.cache # EmptyMap

\* the names the Signature header of the signed request lists, in order
ListedNames == Split(split_signature(sg.headers[HSignature]).map[KHeaders], SP)

\* the names sign_request_headers signs for the request at hand
SignedNames ==
    IF sg.data.some THEN <<HRequestTarget, HDate, HHost, HContentLength, HDigest>>
    ELSE <<HRequestTarget, HDate, HHost>>

\* C27: the headers field of the Signature header of a request that
\* sign_request_headers signed lists (request-target), date, host, then
\* content-length and digest when there is a body, in that order; of these
\* names (request-target) alone is not among the transmitted headers.
C27_HeadersFieldListsSigned ==
    (sg.stage = "signed" /\ sg.signer = "relay")
       => /\ split_signature(sg.headers[HSignature]).ok
          /\ ListedNames = SignedNames
          /\ \A n \in 1..Len(ListedNames) :
                (ListedNames[n] \in DOMAIN sg.headers) <=> (ListedNames[n] # HRequestTarget)

C27_SignedWithBody ==
    sg.stage = "signed" /\ sg.signer = "relay" /\ sg.data.some /\ Len(ListedNames) = 5 /\ HDigest \in DOMAIN sg.headers

\* the Signature header of the request at hand was written as the four
\* pairs keyId, algorithm, headers, signature
FourPairs ==
    /\ h.pc # "idle"
    /\ h.req.sig \in {"valid", "wrongkey", "nodate", "badbase64", "nodash", "unknownalg",
                      "commakey"}

\* C28: split_signature of a header keyId="K",algorithm="A",headers="H",
\* signature="S" succeeds and gives the four pairs, whatever the values:
\* written out again as k="v" pairs they are the header, and a keyId with a
\* comma in it comes back whole.
C28_SplitOnTopLevelCommas ==
    FourPairs
       => LET r == split_signature(h.req.headers[HSignature]) IN
          /\ r.ok
          /\ DOMAIN r.map = {KKeyId, KAlgorithm, KHeaders, KSignature}
          /\ SigHeaderOf(r.map, FieldOrder) = h.req.headers[HSignature]
          /\ h.req.sig = "commakey" => r.map[KKeyId] = CommaKeyId

\* the answer to a request that failed with InvalidUri of the string u
InvalidUriAnswer(u) == Response(RetErr(InvalidUri(u)))

\* C29: validate_request of an actor whose id is not a URI with a host
\* fails with InvalidUri of that very string for every activity type and
\* every registry, so the request is answered with it and has changed
\* nothing; an actor URI of the request that is no such URI is answered
\* the same way before the actor is fetched.
C29_HostlessActorIsInvalidUri ==
    /\ (ActorFetched /\ ~host_from_uri(h.actor.id).ok)
          => /\ \A db \in StartRegistries \cup {inboxes}, ty \in Types :
                   validate_request(h.actor, ty, db) = RetErr(InvalidUri(h.actor.id))
             /\ ~h.authorized /\ NoEffect
             /\ (Done /\ h.verified) => h.resp = InvalidUriAnswer(h.actor.id)
    /\ (h.pc # "idle" /\ ~host_from_uri(h.req.actor).ok)
          => /\ ~ActorFetched /\ ~h.authorized /\ NoEffect
             /\ Done => h.resp = InvalidUriAnswer(h.req.actor)

C29_HostlessFollowAnswered ==
    /\ Done /\ h.req.ty = "Follow" /\ h.actor = ActorD /\ h.verified
    /\ h.resp.status = 401 /\ h.resp.uri = HostlessId
    /\ inboxes = Persisted

\* C30: no step of the inbox handler takes a key out of the dedup cache:
\* every object id the cache holds before a step it holds after it.
C30_CacheOnlyGrows ==
    [][\A k \in DOMAIN object_cache : k \in DOMAIN object_cache']_vars

C30_CacheGrewAndKept ==
    /\ Done /\ h.cacheWrites = 1
    /\ h.pre.cache # EmptyMap
    /\ DOMAIN h.pre.cache # DOMAIN object_cache
    /\ DOMAIN h.pre.cache \subseteq DOMAIN object_cache

\* every key of the registry is the host of the inbox URL filed under it
KeysAreHosts(db) ==
    \A k \in DOMAIN db : host_from_uri(db[k]).ok /\ host_from_uri(db[k]).host = k

\* C31: after any sequence of add_inbox_if_unknown and remove_inbox calls
\* every key of the registry is the host of the inbox URL stored under it;
\* the registry is a map, so a host has one entry at most.
C31_RegistryKeyedByHost ==
    /\ KeysAreHosts(inboxes)
    /\ \A m \in 1..Len(dbLog) :
          (dbLog[m].op = "add" /\ dbLog[m].added /\ m = Len(dbLog))
             => (dbLog[m].host \in DOMAIN inboxes /\ inboxes[dbLog[m].host] = dbLog[m].arg)

\* C31 witness: an entry replaced by a second inbox of its host, another removed
C31_Witness ==
    /\ Len(dbLog) = 3
    /\ dbLog[1].op = "add" /\ dbLog[1].added /\ dbLog[1].known
    /\ dbLog[2].op = "remove" /\ dbLog[2].ok
    /\ dbLog[3].op = "add" /\ dbLog[3].added
    /\ inboxes # EmptyMap

\* the request is of a kind that asks the dedup cache: a relay, or a forward
SharesCache ==
    /\ h.verified /\ h.authorized /\ ObjectId.ok
    /\ (h.req.ty \in {"Announce", "Create"} \/ Forwarded)

\* post_for_actor has computed recipients for the request and delivers, or
\* has delivered, to them
FannedOut == h.pc = "try_join_all" \/ h.posts # <<>> \/ h.cacheWrites > 0

\* C32: with requests handled one after the other, a relay or forward fans
\* out only for an object id the cache did not hold when the request came,
\* and has the id in the cache when it is over; a request for an object id
\* the cache holds, relayed or forwarded before, sends nothing and is
\* answered 200. Keys never leave the cache, so one activity at most is
\* fanned out per object id.
C32_OneFanoutPerObject ==
    SharesCache
       => /\ FannedOut => ObjectId.id \notin DOMAIN h.pre.cache
          /\ (FannedOut /\ Done) => ObjectId.id \in DOMAIN object_cache
          /\ ObjectId.id \in DOMAIN h.pre.cache
                => /\ h.posts = <<>> /\ object_cache = h.pre.cache
                   /\ Done => h.resp = Response(RetOk)

\* C32 witness: a Delete for an object an earlier Announce or Create relayed
\* (the cache holds a minted id for it) is dropped
C32_Witness ==
    /\ SharesCache /\ Done /\ h.req.ty = "Delete"
    /\ ObjectId.id \in DOMAIN h.pre.cache
    /\ h.pre.cache[ObjectId.id] # ObjectId.id
    /\ h.posts = <<>> /\ h.resp = Response(RetOk)

\* the request called post_for_actor and the call has returned
PostForActorReturned == SharesCache /\ Done /\ h.object_id # <<>>

\* C33: when post_for_actor has returned, the cache holds the object id
\* with the value it was called with, deliveries failed or not, unless the
\* object id has no host, the one case in which the cache is not written;
\* and a request for an object id the cache holds delivers nothing.
C33_CachedEvenOnFailure ==
    /\ PostForActorReturned
          => IF host_from_uri(h.object_id).ok
             THEN /\ h.cacheWrites = 1
                  /\ h.object_id \in DOMAIN object_cache
                  /\ object_cache[h.object_id] = h.cache_value
             ELSE /\ h.cacheWrites = 0 /\ object_cache = h.pre.cache
                  /\ h.resp = InvalidUriAnswer(h.object_id)
    /\ (SharesCache /\ ObjectId.id \in DOMAIN h.pre.cache) => ~FannedOut

\* C33 witness: a delivery failed, the request is answered with the error,
\* and the object is in the cache
C33_Witness ==
    /\ PostForActorReturned /\ h.resp.kind = "err" /\ h.res.kind = "Err"
    /\ \E n \in 1..Len(h.posts) : ~h.posts[n].ok
    /\ h.object_id \in DOMAIN object_cache /\ h.object_id \notin DOMAIN h.pre.cache

\* the Follow of the request at hand has been handled and answered 200
FollowHandled == Done /\ h.req.ty = "Follow" /\ h.resp = Response(RetOk)

\* C34: when a Follow of an actor has been handled and answered 200, the
\* registry it leaves lets every other activity type of that actor pass
\* validate_request, and remove_inbox as handle_undo calls it for that
\* actor takes the entry of the actor's inbox out again; for every actor
\* document, the inbox on the host of the id or not.
C34_FollowThenAuthorized ==
    FollowHandled
       => /\ \A ty \in Types \ {"Follow"} : validate_request(h.actor, ty, inboxes) = RetOk
          /\ LET r == remove_inbox(inboxes, h.actor.id) IN
             /\ r.ok
             /\ host_from_uri(h.actor.inbox).host \notin DOMAIN r.db

\* handle_undo has taken the registry entry of the actor's domain out
UndoHandled == UndoFollow /\ h.verified /\ h.known /\ UndoActed /\ h.regWrites = 1

\* the inbox URLs the registry holds
Registered(db) == { db[k] : k \in DOMAIN db }

\* a fan-out delivers to inboxes the registry held when the request came
FanoutToRegistered ==
    InFanout => \A n \in 1..Len(h.posts) : h.posts[n].to \in Registered(h.pre.inboxes)

\* a domain enters the registry only in handle_follow's step for an actor
\* whose inbox is on it
OnlyFollowRegisters ==
    \A k \in DOMAIN inboxes' \ DOMAIN inboxes :
       \E i \in Handlers : /\ hs[i].pc = "handle_follow"
                            /\ hs[i].req.ty = "Follow"
                            /\ host_from_uri(hs[i].actor.inbox).host = k

\* C35: once an Undo of a Follow from a registered domain is handled, the
\* registry has no entry of the domain and no entry with the actor's inbox,
\* so validate_request denies every other type from the actor and no
\* recipient list holds its inbox; a domain comes back into the registry
\* only by the handling of a Follow from it, and a fan-out delivers only to
\* registered inboxes.
C35_UndoneUntilFollow ==
    /\ [](UndoHandled
            => /\ host_from_uri(h.actor.id).host \notin DOMAIN inboxes
               /\ h.actor.inbox \notin Registered(inboxes)
               /\ \A ty \in Types \ {"Follow"} :
                     validate_request(h.actor, ty, inboxes) = RetErr(AccessDenied))
    /\ [](h.verified /\ HasDomain /\ h.req.ty # "Follow" /\ Done
            /\ host_from_uri(h.actor.id).host \notin DOMAIN h.pre.inboxes
            => RespondedWith(401, "access denied") /\ h.posts = <<>>)
    /\ []FanoutToRegistered
    /\ [][OnlyFollowRegisters]_vars

\* C35 witness: an Undo of a Follow handled to the end while other domains
\* stay registered
C35_Witness ==
    /\ UndoHandled /\ Done /\ h.resp = Response(RetOk)
    /\ h.pre.inboxes = Persisted
    /\ host_from_uri(h.actor.id).host \notin DOMAIN inboxes
    /\ inboxes # EmptyMap

\* handle_follow has registered the actor's inbox for the request at hand
FollowRegistered ==
    /\ h.req.ty = "Follow" /\ h.verified /\ h.added
    /\ h.pc \in {"follow_actor", "follow_actor_post", "accept", "done"}

\* the request at hand ended in an error of an outbound call
OutboundFailed ==
    /\ Done /\ h.resp.kind = "err"
    /\ h.resp.error \in {"failed http request", "invalid JSON"}

\* C36: what the handshake wrote to the registry stays: a Follow whose
\* outbound Follow or Accept fails is answered with that error and leaves
\* the actor's inbox registered under its host; an Undo of a Follow whose
\* outbound Undo fails leaves the entry removed.
C36_NoRollback ==
    /\ FollowRegistered
          => /\ host_from_uri(h.actor.inbox).host \in DOMAIN inboxes
             /\ inboxes[host_from_uri(h.actor.inbox).host] = h.actor.inbox
             /\ (Done /\ \E n \in 1..Len(h.posts) : ~h.posts[n].ok)
                   => (OutboundFailed /\ ~h.posts[Len(h.posts)].ok)
    /\ UndoHandled => host_from_uri(h.actor.id).host \notin DOMAIN inboxes

\* C36 witness: the Accept of a Follow from a new domain was not delivered
C36_Witness ==
    /\ FollowRegistered /\ OutboundFailed /\ Len(h.posts) = 2
    /\ h.posts[2].ty = "Accept" /\ ~h.posts[2].ok
    /\ host_from_uri(h.actor.inbox).host \notin DOMAIN h.pre.inboxes
    /\ host_from_uri(h.actor.inbox).host \in DOMAIN inboxes

\* C37: a request that validate_signature accepts lists (request-target)
\* in the headers field of its Signature header, and no request whose path
\* was changed after signing, all headers kept, is accepted.
C37_RequestTargetCovered ==
    (sg.stage = "checked" /\ sg.res.kind = "Ok")
       => /\ \E n \in 1..Len(ListedNames) : ListedNames[n] = HRequestTarget
          /\ sg.tamper # "path"

\* task i is at a step that takes a lock, or awaits an outbound call
AtAcquire(i) == hs[i].pc = "locks" /\ hs[i].ops # <<>> /\ Head(hs[i].ops).op = "acquire"
AtAwait(i) == hs[i].pc = "locks" /\ hs[i].ops # <<>> /\ Head(hs[i].ops).op = "await"

\* task i wants a lock it cannot have now
Blocked(i) == AtAcquire(i) /\ ~Available(Head(hs[i].ops).lock, i)

\* C38: a handler that awaits an outbound HTTP call, or is about to take
\* a lock, holds neither the cache mutex nor a registry guard; so a handler
\* that waits for a lock waits for a handler that holds it and is not
\* waiting itself: no deadlock on the two locks.
C38_NoLockHeldAcrossAwait ==
    /\ \A i \in Handlers : (AtAwait(i) \/ AtAcquire(i)) => hs[i].holds = {}
    /\ \A i \in Handlers :
          Blocked(i) => \E j \in Handlers \ {i} : hs[j].holds # {} /\ ~Blocked(j) /\ ~AtAwait(j)

\* C38 witness: one handler holds the write guard of the registry while the
\* other waits for a read guard
C38_Witness ==
    /\ WriteGuard \in hs[First].holds
    /\ Blocked(Second) /\ Head(hs[Second].ops).lock = ReadGuard

\* the handling of the request at hand ended with a response to the client
Answered == Done /\ h.resp.kind \in {"ok", "err"}

\* C39: the handling of every request that has arrived comes to its end,
\* and at its end the client has a response: 200, or an error.
C39_EveryRequestAnswered ==
    /\ (h.pc \notin {"idle", "done"}) ~> Done
    /\ [](Done => Answered)

====
